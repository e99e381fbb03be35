----------------------------- MODULE Documents -----------------------------
(***************************************************************************)
(* The addresses of the server: how Normalize leaves base_path and         *)
(* public_url (config/config.go), which handler a path reaches, and the    *)
(* links buildMetadataBundle writes into each document.                    *)
(*                                                                         *)
(* A path is the sequence of its segments, a segment the sequence of its   *)
(* parts between dots: /data/a.json is <<<<"data">>, <<"a", "json">>>>,    *)
(* and / is <<Empty>>.  The text of a document is left out but for its     *)
(* links.                                                                  *)
(***************************************************************************)
EXTENDS RequestPolicy, SequencesExt

CONSTANTS
    Sources     \* identifier (a segment) -> [extension, hasUTFGrid]

Empty == <<"">>
NoURL == [scheme |-> "", host |-> <<>>, path |-> <<>>]

(***************************************************************************)
(* Configuration.                                                          *)
(***************************************************************************)
Full(path) == {i \in DOMAIN path : path[i] # Empty}

TrimRight(path) == IF Full(path) = {} THEN <<>> ELSE SubSeq(path, 1, Max(Full(path)))

Trim(path) == IF Full(path) = {} THEN <<Empty>> ELSE SubSeq(path, Min(Full(path)), Max(Full(path)))

NormalizeBasePath(path) ==
    IF path \in {<<>>, <<Empty>>, <<Empty, Empty>>} THEN <<>> ELSE Trim(path)

ValidateBasePath(path) == \A i \in DOMAIN path : path[i] \notin {Empty, <<"", "">>, <<"", "", "">>}

NormalizePublicURL(url, basePath) ==
    IF url = NoURL THEN NoURL ELSE [url EXCEPT !.path = TrimRight(@) \o basePath]

Normalize(c) ==
    LET basePath == NormalizeBasePath(c.basePath)
    IN  IF ~ValidateBasePath(basePath) THEN Invalid
        ELSE [c EXCEPT !.basePath = basePath, !.publicURL = NormalizePublicURL(@, basePath)]

(***************************************************************************)
(* basePathMiddleware and the routes of Handler, with the look-up of the   *)
(* source that each handler starts with and, of a tile, the check of its   *)
(* extension; its numbers are left to TileRequests.  A path that is not    *)
(* clean is Absent, where ServeMux would redirect to the clean one: a link *)
(* may not rely on it.                                                     *)
(***************************************************************************)
Document(kind, id) == [kind |-> kind, id |-> id]
Shared(kind) == Document(kind, <<>>)
Absent == Shared("absent")

\* extensionAllowed, but for the case of letters.
ExtensionsOf(extension) ==
    CASE extension = "pbf" -> {<<"pbf">>, <<"mvt">>, <<"vector", "pbf">>}
      [] extension = "jpg" -> {<<"jpg">>, <<"jpeg">>}
      [] OTHER -> {<<extension>>}

\* The tile or grid of a source that the extension of a name asks for.
TileRoute(id, extension) ==
    IF id \notin DOMAIN Sources THEN Absent
    ELSE IF extension = <<"grid", "json">>
    THEN IF Sources[id].hasUTFGrid THEN Document("grid", id) ELSE Absent
    ELSE IF extension \in ExtensionsOf(Sources[id].extension) THEN Document("tile", id) ELSE Absent

RouteOf(c, path) ==
    IF path = <<Empty>> \/ (path = <<>> /\ c.basePath # <<>>) THEN Shared("catalog")
    ELSE CASE path \in {<<<<"health">>>>, <<<<"healthz">>>>, <<<<"readyz">>>>, <<<<"status", "json">>>>}
                -> Shared("state")
           [] path = <<<<"metrics">>>> -> IF c.metrics THEN Shared("state") ELSE Absent
           [] path = <<<<"data", "json">>>> -> Shared("dataIndex")
           [] path = <<<<"index", "json">>>> -> Shared("catalog")
           [] path = <<<<"wmts">>>> -> Shared("wmts")
           [] Len(path) = 2 /\ path[1] = <<"data">> ->
                IF Last(path[2]) = "json" THEN Document("tileJSON", Front(path[2])) ELSE Absent
           [] Len(path) = 3 /\ path[1] = <<"data">> /\ path[3] = <<"wmts", "xml">> ->
                Document("sourceWMTS", path[2])
           [] Len(path) = 5 /\ path[1] \in {<<"data">>, <<"tiles">>} ->
                TileRoute(path[2], Tail(path[5]))
           [] OTHER -> Absent

\* What is served from a bundle, and what belongs to one source.
DocumentKinds == {"catalog", "dataIndex", "tileJSON", "wmts", "sourceWMTS"}
SourceKinds == {"tileJSON", "sourceWMTS", "tile", "grid"}

Exists(d) ==
    /\ d # Absent
    /\ d.kind \in SourceKinds => d.id \in DOMAIN Sources

Served(c, path) ==
    IF ~IsPrefix(c.basePath, path) THEN Absent
    ELSE LET d == RouteOf(c, SubSeq(path, Len(c.basePath) + 1, Len(path)))
         IN  IF Exists(d) THEN d ELSE Absent

(***************************************************************************)
(* The links of a document under a base URL.                               *)
(***************************************************************************)
ExternalBaseURL(c, r) ==
    IF c.publicURL # NoURL THEN c.publicURL
    ELSE [scheme |-> IF c.trustProxy /\ r.proto \in {"http", "https"} THEN r.proto ELSE "http",
          host |-> RequestHost(c, r), path |-> c.basePath]

Below(base, path) == [base EXCEPT !.path = @ \o path]

TileLinks(base, id) ==
    {Below(base, <<<<"data">>, id, <<"z">>, <<"x">>, <<"y", Sources[id].extension>>>>)}

GridLinks(base, id) ==
    IF Sources[id].hasUTFGrid
    THEN {Below(base, <<<<"data">>, id, <<"z">>, <<"x">>, <<"y", "grid", "json">>>>)} ELSE {}

CatalogLinks(c, base) ==
    {Below(base, <<<<"healthz">>>>), Below(base, <<<<"wmts">>>>)}
    \cup (IF c.metrics THEN {Below(base, <<<<"metrics">>>>)} ELSE {})
    \cup {Below(base, <<<<"data">>, id \o <<"json">>>>) : id \in DOMAIN Sources}

TileJSON(base, id) == TileLinks(base, id) \cup GridLinks(base, id)

Capabilities(base, ids) ==
    {Below(base, <<<<"wmts">>>>)} \cup UNION {TileLinks(base, id) : id \in ids}

Links(c, base, d) ==
    CASE d.kind = "catalog" -> CatalogLinks(c, base)
      [] d.kind = "dataIndex" -> UNION {TileJSON(base, id) : id \in DOMAIN Sources}
      [] d.kind = "tileJSON" -> TileJSON(base, d.id)
      [] d.kind = "wmts" -> Capabilities(base, DOMAIN Sources)
      [] d.kind = "sourceWMTS" -> Capabilities(base, {d.id})
=============================================================================
