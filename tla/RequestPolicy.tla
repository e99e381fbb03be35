--------------------------- MODULE RequestPolicy ---------------------------
(***************************************************************************)
(* Whom the server answers: the CORS settings as Validate leaves them      *)
(* (config/config.go), corsPolicy and hostPolicy (server/policy.go), and   *)
(* what securityMiddleware, preflightMiddleware, hostMiddleware and        *)
(* externalBaseURL make of them (server/middleware.go).                    *)
(***************************************************************************)
EXTENDS Integers, Sequences

CONSTANTS
    NoOrigin,   \* the request has no Origin
    Invalid     \* a configuration that is refused

(***************************************************************************)
(* Configuration: no origins are all origins, and credentials are refused  *)
(* for all.                                                                *)
(***************************************************************************)
\* Variant: the default for no origins is filled in after the check.
ValidateDefaultLast(c) ==
    IF c.credentials /\ "*" \in c.origins THEN Invalid
    ELSE [c EXCEPT !.origins = IF @ = {} THEN {"*"} ELSE @]

Validate(c) ==
    LET origins == IF c.origins = {} THEN {"*"} ELSE c.origins
    IN  IF c.credentials /\ "*" \in origins THEN Invalid ELSE [c EXCEPT !.origins = origins]

AllowsAll(c) == "*" \in c.origins

OriginAllowed(c, origin) == AllowsAll(c) \/ origin \in c.origins

(***************************************************************************)
(* The headers securityMiddleware sets on every response.                  *)
(***************************************************************************)
Echoed(c, origin) == origin # NoOrigin /\ OriginAllowed(c, origin)

\* Variant: Vary is added only with an origin that is answered.
SecurityVaryIfEchoed(c, origin) ==
    IF AllowsAll(c) THEN [vary |-> {}, allowOrigin |-> "*", credentials |-> FALSE]
    ELSE [vary |-> IF Echoed(c, origin) THEN {"origin"} ELSE {},
          allowOrigin |-> IF Echoed(c, origin) THEN origin ELSE NoOrigin,
          credentials |-> Echoed(c, origin) /\ c.credentials]

Security(c, origin) ==
    IF AllowsAll(c) THEN [vary |-> {}, allowOrigin |-> "*", credentials |-> FALSE]
    ELSE [vary |-> {"origin"},
          allowOrigin |-> IF Echoed(c, origin) THEN origin ELSE NoOrigin,
          credentials |-> Echoed(c, origin) /\ c.credentials]

(***************************************************************************)
(* preflightMiddleware, for OPTIONS with an origin and a method.           *)
(***************************************************************************)
IsPreflight(r) == r.method = "OPTIONS" /\ r.origin # NoOrigin /\ r.requests # "none"

PreflightStatus(c, r) ==
    IF ~OriginAllowed(c, r.origin) THEN 403
    ELSE IF r.requests \notin {"GET", "HEAD"} THEN 405
    ELSE IF ~r.simpleHeaders THEN 400 ELSE 204

(***************************************************************************)
(* Hosts, as sequences of labels; <<>> is no host, <<"*">> all of them,    *)
(* and <<"*">> \o s those below s.                                         *)
(***************************************************************************)
IsBelow(host, suffix) ==
    Len(host) > Len(suffix) /\ SubSeq(host, Len(host) - Len(suffix) + 1, Len(host)) = suffix

HostAllowed(hosts, host) ==
    /\ host # <<>>
    /\ \/ host \in hosts
       \/ \E h \in hosts : h # <<>> /\ Head(h) = "*" /\ IsBelow(host, Tail(h))

\* X-Forwarded-Host is looked at only behind a proxy that is trusted.
RequestHost(c, r) == IF c.trustProxy /\ r.forwarded # <<>> THEN r.forwarded ELSE r.host
=============================================================================
