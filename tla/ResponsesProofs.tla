-------------------------- MODULE ResponsesProofs --------------------------
(***************************************************************************)
(* Theorems about Responses, for any configurations, any tiles and any     *)
(* requests.  What a client was given is the server's response to its own  *)
(* request or to one that agrees with it in the headers the response       *)
(* varies by; the three properties follow from that, one response at a     *)
(* time.                                                                   *)
(***************************************************************************)
EXTENDS Responses, TLAPS

IsGivenTo(r, response) ==
    \/ response = Respond(r)
    \/ \E s \in Requests :
         /\ Respond(s).public
         /\ Agree(r, s, Respond(s).vary)
         /\ response = Respond(s)

StoredIsPublic ==
    stored # Empty =>
        /\ stored.request \in Requests
        /\ stored.response = Respond(stored.request)
        /\ Respond(stored.request).public

DeliveredIsGiven ==
    delivered # Empty =>
        delivered.request \in Requests /\ IsGivenTo(delivered.request, delivered.response)

ConfigIsValid == \E c \in Configs : config = Validate(c) /\ config # Invalid

RInv == ConfigIsValid /\ StoredIsPublic /\ DeliveredIsGiven

LEMMA InitRInv == Init => RInv
BY DEF Init, RInv, ConfigIsValid, StoredIsPublic, DeliveredIsGiven

LEMMA SameResponses ==
    ASSUME UNCHANGED <<config, file>>
    PROVE  /\ \A r : Respond(r)' = Respond(r)
           /\ \A r, response : IsGivenTo(r, response)' = IsGivenTo(r, response)
BY DEF Respond, ServeTile, IsGivenTo, ServeCachedResponse, WriteError, Response, Agree

LEMMA StepRInv == RInv /\ [Next]_vars => RInv'
<1> SUFFICES ASSUME RInv, [Next]_vars PROVE RInv'
  OBVIOUS
<1>1. UNCHANGED <<config, file>>
  BY DEF Next, Fetch, Reuse, Done, Deliver, vars
<1>2. /\ \A r : Respond(r)' = Respond(r)
      /\ \A r, response : IsGivenTo(r, response)' = IsGivenTo(r, response)
  BY <1>1, SameResponses
<1>3. ConfigIsValid'
  BY <1>1 DEF RInv, ConfigIsValid
<1>4. ASSUME NEW r \in Requests, Fetch(r) PROVE StoredIsPublic' /\ DeliveredIsGiven'
  <2>1. delivered' = [request |-> r, response |-> Respond(r)]
    BY <1>4 DEF Fetch, Deliver
  <2>2. DeliveredIsGiven'
    BY <1>2, <2>1 DEF DeliveredIsGiven, IsGivenTo
  <2>3. StoredIsPublic'
    BY <1>2, <1>4 DEF Fetch, StoredIsPublic, RInv
  <2> QED
    BY <2>2, <2>3
<1>5. ASSUME NEW r \in Requests, Reuse(r) PROVE StoredIsPublic' /\ DeliveredIsGiven'
  <2>1. delivered' = [request |-> r, response |-> stored.response]
    BY <1>5 DEF Reuse, Deliver
  <2>2. IsGivenTo(r, stored.response)
    BY <1>5 DEF Reuse, RInv, StoredIsPublic, IsGivenTo
  <2>3. StoredIsPublic'
    BY <1>2, <1>5 DEF Reuse, StoredIsPublic, RInv
  <2> QED
    BY <1>2, <2>1, <2>2, <2>3 DEF DeliveredIsGiven
<1>6. CASE Done
  BY <1>2, <1>3, <1>6 DEF Done, RInv, StoredIsPublic, DeliveredIsGiven
<1>7. CASE UNCHANGED vars
  BY <1>2, <1>3, <1>7 DEF vars, RInv, StoredIsPublic, DeliveredIsGiven
<1> QED
  BY <1>3, <1>4, <1>5, <1>6, <1>7 DEF Next, RInv

\* Nobody is given a response but the server's to a request that agrees with
\* its own in what the response varies by.
THEOREM GivenOnlyItsOwn == Spec => []RInv
BY InitRInv, StepRInv, PTL DEF Spec

-----------------------------------------------------------------------------
(***************************************************************************)
(* Pages.  Respond keeps what securityMiddleware made of the origin, in    *)
(* every branch.                                                           *)
(***************************************************************************)
LEMMA SecurityIsKept ==
    ASSUME NEW r
    PROVE  /\ Respond(r).allowOrigin = Security(config, r.origin).allowOrigin
           /\ Respond(r).credentials = Security(config, r.origin).credentials
           /\ Security(config, r.origin).vary \subseteq Respond(r).vary
BY DEF Respond, ServeTile, WriteError, ServeCachedResponse, Response

\* Only what serveCachedResponse makes is public.
LEMMA StatusOf ==
    ASSUME NEW r
    PROVE  /\ Respond(r).public => Respond(r).status = 200
           /\ IsPreflight(r) => Respond(r).status = PreflightStatus(config, r)
           /\ ~IsPreflight(r) => Respond(r).status \in {200, 406, 500}
BY DEF Respond, ServeTile, WriteError, ServeCachedResponse, Response

\* Credentials are never configured together with all origins.
LEMMA ValidConfig ==
    ASSUME ConfigIsValid
    PROVE  config.credentials \in BOOLEAN /\ ~(config.credentials /\ "*" \in config.origins)
<1>1. PICK c \in Configs : config = Validate(c) /\ config # Invalid
  BY DEF ConfigIsValid
<1> DEFINE origins == IF c.origins = {} THEN {"*"} ELSE c.origins
<1>2. config = [c EXCEPT !.origins = origins] /\ ~(c.credentials /\ "*" \in origins)
  BY <1>1 DEF Validate
<1>3. "origins" \in DOMAIN c /\ "credentials" \in DOMAIN c /\ c.credentials \in BOOLEAN
  BY ResponsesAssumption
<1> HIDE DEF origins
<1>4. config.origins = origins /\ config.credentials = c.credentials
  BY <1>2, <1>3
<1> QED
  BY <1>2, <1>3, <1>4

\* Whatever was delivered, its headers are those of the origin it went to.
LEMMA HeadersFit ==
    ASSUME RInv, delivered # Empty
    PROVE  /\ delivered.response.allowOrigin = Security(config, delivered.request.origin).allowOrigin
           /\ delivered.response.credentials = Security(config, delivered.request.origin).credentials
<1> DEFINE r == delivered.request
<1>1. IsGivenTo(r, delivered.response)
  BY DEF RInv, DeliveredIsGiven
<1>2. CASE delivered.response = Respond(r)
  BY <1>2, SecurityIsKept
<1>3. ASSUME NEW s \in Requests, Agree(r, s, Respond(s).vary), delivered.response = Respond(s)
      PROVE  Security(config, s.origin) = Security(config, r.origin)
  <2>1. CASE AllowsAll(config)
    BY <2>1 DEF Security
  <2>2. CASE ~AllowsAll(config)
    <3>1. "origin" \in Respond(s).vary
      BY <2>2, SecurityIsKept DEF Security
    <3>2. r["origin"] = s["origin"]
      BY <1>3, <3>1 DEF Agree
    <3> QED
      BY <3>2
  <2> QED
    BY <2>1, <2>2
<1> QED
  BY <1>1, <1>2, <1>3, SecurityIsKept DEF IsGivenTo

\* Pages read what they are allowed to and nothing else, whatever shared cache
\* is between (middleware.go 57-75, 88).
THEOREM PagesAreServed == Spec => []PagesReadWhatTheyMay
<1>1. ASSUME RInv PROVE PagesReadWhatTheyMay
  <2> DEFINE r == delivered.request
             allowed == config.origins \cap {"*", r.origin} # {}
  <2> SUFFICES ASSUME delivered # Empty, r.origin # NoOrigin
               PROVE  /\ Readable <=> allowed
                      /\ delivered.response.status = 403 => ~allowed
                      /\ delivered.response.status = 204 => allowed /\ r.requests \in {"GET", "HEAD"}
    BY DEF PagesReadWhatTheyMay
  <2>1. allowed <=> OriginAllowed(config, r.origin)
    BY DEF OriginAllowed, AllowsAll
  <2>2. Readable <=> allowed
    <3>1. delivered.response.allowOrigin = Security(config, r.origin).allowOrigin
      BY <1>1, HeadersFit
    <3> QED
      BY <2>1, <3>1, ResponsesAssumption DEF Readable, Security, Echoed, OriginAllowed, AllowsAll
  <2>3. \/ delivered.response.status \in {200, 406, 500}
        \/ delivered.response.status = PreflightStatus(config, r)
    BY <1>1, StatusOf DEF RInv, DeliveredIsGiven, IsGivenTo
  <2> QED
    BY <2>1, <2>2, <2>3 DEF PreflightStatus
<1> QED
  BY <1>1, GivenOnlyItsOwn, PTL

\* No accepted configuration turns credentials off (config.go 220-225).
THEOREM CredentialsAreKept == Spec => []CredentialsWork
<1>1. ASSUME RInv PROVE CredentialsWork
  <2> DEFINE r == delivered.request
  <2> SUFFICES ASSUME delivered # Empty, r.origin # NoOrigin, Readable
               PROVE  /\ delivered.response.credentials <=> config.credentials
                      /\ config.credentials => delivered.response.allowOrigin # "*"
    BY DEF CredentialsWork
  <2>1. config.credentials \in BOOLEAN /\ ~(config.credentials /\ "*" \in config.origins)
    BY <1>1, ValidConfig DEF RInv
  <2>2. /\ delivered.response.allowOrigin = Security(config, r.origin).allowOrigin
        /\ delivered.response.credentials = Security(config, r.origin).credentials
    BY <1>1, HeadersFit
  <2>3. CASE AllowsAll(config)
    BY <2>1, <2>2, <2>3 DEF Security, AllowsAll
  <2>4. CASE ~AllowsAll(config)
    <3>1. Echoed(config, r.origin)
      BY <2>2, <2>4, ResponsesAssumption DEF Readable, Security
    <3>2. /\ Security(config, r.origin).allowOrigin = r.origin
          /\ Security(config, r.origin).credentials = config.credentials
      BY <2>1, <2>4, <3>1 DEF Security
    <3>3. r.origin # "*"
      BY <2>4, <3>1 DEF Echoed, OriginAllowed, AllowsAll
    <3> QED
      BY <2>2, <3>2, <3>3
  <2> QED
    BY <2>3, <2>4
<1> QED
  BY <1>1, GivenOnlyItsOwn, PTL

-----------------------------------------------------------------------------
(***************************************************************************)
(* Encodings.  For a header without duplicates what the server makes of it *)
(* is what HTTP does.                                                      *)
(***************************************************************************)
IsHeader(header) == header \in Seq([coding : Codings, q : (0..2) \cup {Bad}])

LEMMA PreferenceIs ==
    ASSUME NEW header, IsHeader(header), Unambiguous(header), NEW coding \in Codings
    PROVE  LET p == ParseEncodingPreferences(header)
           IN  /\ p[coding].has \in BOOLEAN /\ p[coding].q \in 0..2
               /\ p[coding].has <=> Entry(header, coding)
               /\ ~p[coding].has => p[coding].q = 0
               /\ Refused(header, coding) <=> p[coding].has /\ p[coding].q = 0
<1> DEFINE p == ParseEncodingPreferences(header)
<1>1. ASSUME NEW i \in DOMAIN header PROVE i \in Nat /\ header[i].q \in (0..2) \cup {Bad}
  <2> DEFINE D == [coding : Codings, q : (0..2) \cup {Bad}]
  <2>1. header \in Seq(D)
    BY DEF IsHeader
  <2>2. header[i] \in D /\ i \in Nat
    <3> HIDE DEF D
    <3> QED
      BY <2>1
  <2> QED
    BY <2>2
<1>2. Entry(header, coding) <=> Named(header, coding) # {}
  BY DEF Entry, Named
<1>3. CASE Named(header, coding) = {}
  <2>1. p[coding] = [has |-> FALSE, q |-> 0]
    BY <1>3 DEF ParseEncodingPreferences
  <2>2. ~Refused(header, coding)
    BY <1>3 DEF Refused, Named
  <2> QED
    BY <1>2, <1>3, <2>1, <2>2
<1>4. CASE Named(header, coding) # {}
  <2>1. PICK i \in DOMAIN header : header[i].coding = coding
    BY <1>4 DEF Named
  <2>2. Named(header, coding) = {i}
    BY <2>1 DEF Named, Unambiguous
  <2>3. Last(header, coding) = i
    BY <1>1, <2>1, <2>2 DEF Last
  <2>4. p[coding] = [has |-> TRUE, q |-> Quality(header[i].q)]
    BY <1>4, <2>3 DEF ParseEncodingPreferences
  <2>5. Refused(header, coding) <=> header[i].q \in {0, Bad}
    BY <2>1, <2>2 DEF Refused, Named
  <2>6. Quality(header[i].q) \in 0..2 /\ (Quality(header[i].q) = 0 <=> header[i].q \in {0, Bad})
    BY <1>1, <2>1, ResponsesAssumption DEF Quality
  <2> QED
    BY <1>2, <1>4, <2>4, <2>5, <2>6
<1> QED
  BY <1>3, <1>4

LEMMA AcceptsIsAcceptable ==
    ASSUME NEW header, IsHeader(header), Unambiguous(header), NEW encoding \in {"gzip", "identity"}
    PROVE  Accepts(ParseEncodingPreferences(header), encoding) <=> Acceptable(header, encoding)
<1> DEFINE p == ParseEncodingPreferences(header)
<1>1. \A coding \in Codings :
        /\ p[coding].has \in BOOLEAN /\ p[coding].q \in 0..2
        /\ p[coding].has <=> Entry(header, coding)
        /\ ~p[coding].has => p[coding].q = 0
        /\ Refused(header, coding) <=> p[coding].has /\ p[coding].q = 0
  BY PreferenceIs
<1> HIDE DEF p
<1>2. CASE encoding = "gzip"
  BY <1>1, <1>2 DEF Codings, Accepts, AcceptsGzip, Acceptable, p
<1>3. CASE encoding = "identity"
  BY <1>1, <1>3 DEF Codings, Accepts, AcceptsIdentity, Acceptable, p
<1> QED
  BY <1>2, <1>3

\* A client that prefers gzip accepts it; one that does not refuses it, or
\* accepts identity.
LEMMA PreferenceIsAcceptable ==
    ASSUME NEW header, IsHeader(header), Unambiguous(header)
    PROVE  LET p == ParseEncodingPreferences(header)
           IN  /\ PrefersGzip(p) => AcceptsGzip(p)
               /\ ~PrefersGzip(p) => ~AcceptsGzip(p) \/ AcceptsIdentity(p)
<1> DEFINE p == ParseEncodingPreferences(header)
<1>1. \A coding \in Codings :
        /\ p[coding].has \in BOOLEAN /\ p[coding].q \in 0..2
        /\ ~p[coding].has => p[coding].q = 0
  BY PreferenceIs
<1> HIDE DEF p
<1>2. /\ PrefersGzip(p) => AcceptsGzip(p)
      /\ ~PrefersGzip(p) => ~AcceptsGzip(p) \/ AcceptsIdentity(p)
  BY <1>1 DEF Codings, PrefersGzip, AcceptsGzip, AcceptsIdentity
<1> QED
  BY <1>2 DEF p

\* The encodings there are of what is loaded.
LEMMA LoadMakes ==
    ASSUME NEW p
    PROVE  LET encoding == Load(file, p, config.compress)
           IN  /\ encoding \in {"gzip", "identity", "error"}
               /\ encoding = "gzip" => VaryAcceptEncoding(file) /\ PrefersGzip(p)
               /\ encoding = "identity" => ~PrefersGzip(p) \/ Makes = {"identity"}
<1>1. CASE file.extension = "grid.json"
  BY <1>1 DEF Load, LoadGrid, Merged, ExpandGzip, Makes, VaryAcceptEncoding
<1>2. CASE file.extension = "pbf"
  BY <1>2 DEF Load, LoadTile, ExpandGzip, Makes, VaryAcceptEncoding
<1>3. CASE file.extension \notin {"pbf", "grid.json"}
  BY <1>3 DEF Load, LoadTile, ExpandGzip, Makes, VaryAcceptEncoding
<1> QED
  BY <1>1, <1>2, <1>3

IsAcceptable(header, response) ==
    /\ (response.status = 200 /\ (response.encoding = "gzip" \/ VaryAcceptEncoding(file))) =>
         Acceptable(header, response.encoding)
    /\ response.status = 406 => \A encoding \in Makes : ~Acceptable(header, encoding)

\* What the server answers to a request is acceptable to who asked.
LEMMA ServedIsAcceptable ==
    ASSUME NEW r \in Requests, Unambiguous(r.encodings)
    PROVE  IsAcceptable(r.encodings, Respond(r))
<1> DEFINE p == ParseEncodingPreferences(r.encodings)
           encoding == Load(file, p, config.compress)
           security == Security(config, r.origin)
<1>1. IsHeader(r.encodings)
  BY ResponsesAssumption DEF IsHeader
<1>2. CASE IsPreflight(r)
  <2>1. Respond(r).status \notin {200, 406}
    BY <1>2, StatusOf DEF PreflightStatus
  <2> QED
    BY <2>1 DEF IsAcceptable
<1>3. CASE ~IsPreflight(r)
  <2>1. Respond(r) = IF encoding = "error" THEN WriteError(security, 500)
                     ELSE IF ~Accepts(p, encoding) THEN WriteError(security, 406)
                     ELSE ServeCachedResponse(security, encoding, VaryAcceptEncoding(file))
    BY <1>3 DEF Respond, ServeTile
  <2>2. /\ encoding \in {"gzip", "identity", "error"}
        /\ encoding = "gzip" => VaryAcceptEncoding(file) /\ PrefersGzip(p)
        /\ encoding = "identity" => ~PrefersGzip(p) \/ Makes = {"identity"}
    BY LoadMakes
  <2>3. \A e \in {"gzip", "identity"} : Accepts(p, e) <=> Acceptable(r.encodings, e)
    BY <1>1, AcceptsIsAcceptable
  <2>4. /\ PrefersGzip(p) => AcceptsGzip(p)
        /\ ~PrefersGzip(p) => ~AcceptsGzip(p) \/ AcceptsIdentity(p)
    BY <1>1, PreferenceIsAcceptable
  <2> HIDE DEF p, encoding, security
  <2>5. CASE encoding = "error"
    BY <2>1, <2>5 DEF WriteError, Response, IsAcceptable
  <2>6. CASE encoding # "error" /\ Accepts(p, encoding)
    BY <2>1, <2>2, <2>3, <2>6 DEF ServeCachedResponse, Response, IsAcceptable
  <2>7. CASE encoding # "error" /\ ~Accepts(p, encoding)
    <3>1. encoding = "identity" /\ ~AcceptsIdentity(p)
      BY <2>2, <2>4, <2>7 DEF Accepts
    <3>2. ~AcceptsGzip(p) \/ Makes = {"identity"}
      BY <2>2, <2>4, <3>1
    <3>3. Makes \subseteq {"gzip", "identity"}
      BY DEF Makes
    <3>4. \A e \in Makes : ~Acceptable(r.encodings, e)
      BY <2>3, <3>1, <3>2, <3>3 DEF Accepts
    <3>5. Respond(r).status = 406
      BY <2>1, <2>7 DEF WriteError, Response
    <3> QED
      BY <3>4, <3>5 DEF IsAcceptable
  <2> QED
    BY <2>5, <2>6, <2>7
<1> QED
  BY <1>2, <1>3

\* A public response that depends on the encodings varies by them.
LEMMA PublicVaries ==
    ASSUME NEW s, Respond(s).public
    PROVE  /\ Respond(s).status = 200
           /\ VaryAcceptEncoding(file) => "encodings" \in Respond(s).vary
           /\ ~VaryAcceptEncoding(file) => Respond(s).encoding # "gzip"
<1> DEFINE p == ParseEncodingPreferences(s.encodings)
           encoding == Load(file, p, config.compress)
           security == Security(config, s.origin)
<1>1. Respond(s) = ServeCachedResponse(security, encoding, VaryAcceptEncoding(file))
  BY DEF Respond, ServeTile, WriteError, Response
<1>2. encoding = "gzip" => VaryAcceptEncoding(file)
  BY LoadMakes
<1> HIDE DEF p, encoding, security
<1> QED
  BY <1>1, <1>2 DEF ServeCachedResponse, Response

\* Nobody is given an encoding it refuses, and none is refused that would have
\* done, with or without a shared cache between (tiles.go 62-82, 212-277,
\* 361-390).
THEOREM AcceptableIsServed == Spec => []EncodingsAreAcceptable
<1>1. ASSUME RInv PROVE EncodingsAreAcceptable
  <2> DEFINE r == delivered.request
  <2> SUFFICES ASSUME delivered # Empty, Unambiguous(r.encodings)
               PROVE  IsAcceptable(r.encodings, delivered.response)
    BY DEF EncodingsAreAcceptable, IsAcceptable
  <2>1. r \in Requests /\ IsGivenTo(r, delivered.response)
    BY <1>1 DEF RInv, DeliveredIsGiven
  <2>2. CASE delivered.response = Respond(r)
    BY <2>1, <2>2, ServedIsAcceptable
  <2>3. ASSUME NEW s \in Requests, Respond(s).public, Agree(r, s, Respond(s).vary),
               delivered.response = Respond(s)
        PROVE  IsAcceptable(r.encodings, delivered.response)
    <3>1. /\ Respond(s).status = 200
          /\ VaryAcceptEncoding(file) => "encodings" \in Respond(s).vary
          /\ ~VaryAcceptEncoding(file) => Respond(s).encoding # "gzip"
      BY <2>3, PublicVaries
    <3>2. CASE VaryAcceptEncoding(file)
      <4>1. r["encodings"] = s["encodings"]
        BY <2>3, <3>1, <3>2 DEF Agree
      <4>2. IsAcceptable(s.encodings, Respond(s))
        BY <4>1, ServedIsAcceptable
      <4> QED
        BY <2>3, <4>1, <4>2
    <3>3. CASE ~VaryAcceptEncoding(file)
      BY <2>3, <3>1, <3>3 DEF IsAcceptable
    <3> QED
      BY <3>2, <3>3
  <2> QED
    BY <2>1, <2>2, <2>3 DEF IsGivenTo
<1> QED
  BY <1>1, GivenOnlyItsOwn, PTL
=============================================================================
