---------------------------- MODULE Negotiation ----------------------------
(***************************************************************************)
(* Accept-Encoding in internal/server/tiles.go: what is made of a header,  *)
(* which variant of a tile or grid is loaded, and how it is converted.     *)
(*                                                                         *)
(* A header is a sequence of entries, a coding with its quality in halves  *)
(* or Bad for one that is no number from 0 to 1.  A file holds data that   *)
(* are plain, gzip, or begin like gzip and are "broken"; those of a grid   *)
(* may be a JSON object, and have grid data kept apart from them.          *)
(***************************************************************************)
EXTENDS Integers, Sequences

CONSTANT Bad

Codings == {"gzip", "identity", "*"}

(***************************************************************************)
(* encodingPreferences.  Of entries for one coding the last one counts.    *)
(***************************************************************************)
Quality(q) == IF q = Bad THEN 0 ELSE q

Named(header, coding) == {i \in DOMAIN header : header[i].coding = coding}

Last(header, coding) ==
    CHOOSE i \in Named(header, coding) : \A j \in Named(header, coding) : j <= i

ParseEncodingPreferences(header) ==
    [coding \in Codings |->
        IF Named(header, coding) = {} THEN [has |-> FALSE, q |-> 0]
        ELSE [has |-> TRUE, q |-> Quality(header[Last(header, coding)].q)]]

AcceptsGzip(p) ==
    IF p["gzip"].has THEN p["gzip"].q > 0 ELSE p["*"].has /\ p["*"].q > 0

\* Variant: identity is refused by name only.
AcceptsIdentityByName(p) == p["identity"].has => p["identity"].q > 0

AcceptsIdentity(p) ==
    IF p["identity"].has THEN p["identity"].q > 0 ELSE p["*"].has => p["*"].q > 0

PrefersGzip(p) ==
    LET q == IF p["gzip"].has THEN p["gzip"].q ELSE p["*"].q
    IN  q > 0 /\ (p["identity"].has => q >= p["identity"].q)

Accepts(p, encoding) == IF encoding = "gzip" THEN AcceptsGzip(p) ELSE AcceptsIdentity(p)

(***************************************************************************)
(* loadTile and loadGrid: the encoding of what they return, or "error".    *)
(***************************************************************************)
ExpandGzip(data) == IF data = "broken" THEN "error" ELSE "identity"

LoadTile(file, wantsGzip, compress) ==
    IF file.data # "plain" THEN IF wantsGzip THEN "gzip" ELSE ExpandGzip(file.data)
    ELSE IF wantsGzip /\ file.extension = "pbf" /\ compress THEN "gzip" ELSE "identity"

\* Grid data are put into the document, which is expanded for it and plain then;
\* a document that is no JSON object takes none.
Merged(file) ==
    IF ~file.gridData THEN file.data
    ELSE IF file.data = "broken" \/ ~file.object THEN "error" ELSE "plain"

LoadGrid(file, wantsGzip) ==
    CASE Merged(file) = "error" -> "error"
      [] Merged(file) = "plain" -> IF wantsGzip THEN "gzip" ELSE "identity"
      [] OTHER -> IF wantsGzip THEN "gzip" ELSE ExpandGzip(Merged(file))

\* What cachedTile and serveGrid look up for a client.
Load(file, p, compress) ==
    IF file.extension = "grid.json" THEN LoadGrid(file, PrefersGzip(p))
    ELSE LoadTile(file, file.extension = "pbf" /\ PrefersGzip(p), compress)

VaryAcceptEncoding(file) == file.extension \in {"pbf", "grid.json"}
=============================================================================
