---------------------------- MODULE TileRequests ----------------------------
(***************************************************************************)
(* What a layer answers to requests for its tiles, by address (serveTile   *)
(* and serveGrid) and by WMTS query (serveWMTS), up to the look-up in the  *)
(* cache: the two endpoints validate on their own and share the cache.     *)
(***************************************************************************)
EXTENDS TileAddresses, Sequences

CONSTANTS
    Layers,     \* metadata a store may have
    Addresses,  \* requests by address
    Queries,    \* queries of serveWMTS
    Missing,    \* a parameter that is not given
    Wrong       \* a value that is no number, or not the one required

Number(v) == v \in Int \/ v \in {Missing, Wrong}

\* The store's bounds are in order, west and east are of the world, and its
\* zooms exist: parseNumbers4 and the store refuse others (store.go 306-312,
\* 358-375).
IsLayer(m) ==
    /\ m.minZoom \in 0..MaxZoom /\ m.maxZoom \in 0..MaxZoom
    /\ m.west \in 0..Unit /\ m.east \in 0..Unit /\ m.west <= m.east
    /\ m.north \in Int /\ m.south \in Int /\ m.north <= m.south

ASSUME TileRequestsAssumption ==
    /\ Missing # Wrong
    /\ \A v \in {Missing, Wrong} : v \notin Int /\ v \notin BOOLEAN
    /\ \A m \in Layers : IsLayer(m)
    /\ \A a \in Addresses :
         /\ Number(a.z) /\ Number(a.x) /\ Number(a.y) /\ a.gzip \in BOOLEAN
         /\ "TILEROW" \notin DOMAIN a
    /\ \A q \in Queries :
         /\ Number(q.TILEMATRIX) /\ Number(q.TILEROW) /\ Number(q.TILECOL) /\ q.gzip \in BOOLEAN
         /\ "TILEROW" \in DOMAIN q

VARIABLES
    layer,      \* the metadata of the store
    asked,      \* the request
    answer      \* what it is answered with

vars == <<layer, asked, answer>>

Nothing == [what |-> "nothing"]

Found(kind, z, x, y, gzip) ==
    [what |-> kind, z |-> z, x |-> x, y |-> y, gzip |-> gzip, key |-> NewKey(kind, z, x, y, gzip)]

NotFound == [what |-> "notFound"]

Exception(code, locator) == [what |-> "exception", code |-> code, locator |-> locator]

(***************************************************************************)
(* serveTile and serveGrid.                                                *)
(***************************************************************************)
ExtensionsOf ==
    [pbf |-> {"pbf", "mvt", "vector.pbf"}, jpg |-> {"jpg", "jpeg"}, png |-> {"png"}]

ZoomOf(m, z) == z >= m.minZoom /\ z <= m.maxZoom

AddressAnswer(m, a) ==
    LET numbers == Wrong \notin {a.z, a.x, a.y}
        inside == numbers /\ ZoomOf(m, a.z) /\ ValidXYZ(a.z, a.x, a.y)
    IN  IF a.extension = "grid.json" /\ m.hasUTFGrid /\ inside THEN Found("grid", a.z, a.x, a.y, a.gzip)
        ELSE IF a.extension \in ExtensionsOf[m.extension] /\ inside
        THEN Found("tile", a.z, a.x, a.y, a.gzip /\ m.extension = "pbf")
        ELSE NotFound

(***************************************************************************)
(* serveWMTS: its checks in their order, each with the exception it makes. *)
(***************************************************************************)
Checks ==
    <<[locator |-> "SERVICE", test |-> "value"], [locator |-> "REQUEST", test |-> "value"],
      [locator |-> "VERSION", test |-> "value"], [locator |-> "LAYER", test |-> "value"],
      [locator |-> "STYLE", test |-> "value"], [locator |-> "FORMAT", test |-> "value"],
      [locator |-> "TILEMATRIXSET", test |-> "value"], [locator |-> "TILEMATRIX", test |-> "number"],
      [locator |-> "TILEMATRIX", test |-> "zoom"],
      [locator |-> "TILEROW", test |-> "number"], [locator |-> "TILECOL", test |-> "number"],
      [locator |-> "TILEROW", test |-> "matrix"], [locator |-> "TILECOL", test |-> "matrix"],
      [locator |-> "TILEROW", test |-> "limits"], [locator |-> "TILECOL", test |-> "limits"]>>

\* Variant: rows and columns are held against each other's limits.
LimitsSwapped(m, q, locator) ==
    LET limits == WebMercatorTileLimits(m, q.TILEMATRIX)
    IN  IF locator = "TILEROW" THEN limits.col ELSE limits.row

LimitsFor(m, q, locator) ==
    LET limits == WebMercatorTileLimits(m, q.TILEMATRIX)
    IN  IF locator = "TILEROW" THEN limits.row ELSE limits.col

Passes(m, q, c) ==
    LET value == q[c.locator]
    IN  /\ c.test = "value" => value \notin {Missing, Wrong}
        /\ c.test = "number" =>
             value \notin {Missing, Wrong} /\ value >= 0 /\ (c.locator = "TILEMATRIX" => value <= MaxZoom)
        /\ c.test = "zoom" => ZoomOf(m, value)
        /\ c.test = "matrix" => value < Width(q.TILEMATRIX)
        /\ c.test = "limits" => Between(value, LimitsFor(m, q, c.locator))

Code(q, c) ==
    IF q[c.locator] = Missing THEN "MissingParameterValue"
    ELSE IF c.test \in {"matrix", "limits"} THEN "TileOutOfRange"
    ELSE IF c.locator = "REQUEST" THEN "OperationNotSupported" ELSE "InvalidParameterValue"

IsFirst(m, q, i) ==
    /\ \A j \in 1..(i - 1) : Passes(m, q, Checks[j])
    /\ ~Passes(m, q, Checks[i])

QueryAnswer(m, q) ==
    IF \A i \in DOMAIN Checks : Passes(m, q, Checks[i])
    THEN Found("tile", q.TILEMATRIX, q.TILECOL, q.TILEROW, q.gzip /\ m.extension = "pbf")
    ELSE LET c == Checks[CHOOSE i \in DOMAIN Checks : IsFirst(m, q, i)] IN Exception(Code(q, c), c.locator)

\* A request for the capabilities gets as far as the version, if it has one;
\* they name the limits of each zoom of the layer.
CapabilitiesAnswer(m, q) ==
    IF q.SERVICE = Missing THEN Exception("MissingParameterValue", "SERVICE")
    ELSE IF q.SERVICE = Wrong THEN Exception("InvalidParameterValue", "SERVICE")
    ELSE IF q.VERSION = Wrong THEN Exception("InvalidParameterValue", "VERSION")
    ELSE [what |-> "capabilities",
          limits |-> [z \in m.minZoom..m.maxZoom |-> WebMercatorTileLimits(m, z)]]

-----------------------------------------------------------------------------
Init ==
    /\ layer \in Layers
    /\ asked = Nothing
    /\ answer = Nothing

AskAddress(a) ==
    /\ answer = Nothing
    /\ asked' = a
    /\ answer' = AddressAnswer(layer, a)
    /\ UNCHANGED layer

AskQuery(q) ==
    /\ answer = Nothing
    /\ asked' = q
    /\ answer' = QueryAnswer(layer, q)
    /\ UNCHANGED layer

AskCapabilities(q) ==
    /\ answer = Nothing
    /\ asked' = [SERVICE |-> q.SERVICE, VERSION |-> q.VERSION]
    /\ answer' = CapabilitiesAnswer(layer, q)
    /\ UNCHANGED layer

Finish ==
    /\ answer # Nothing
    /\ asked' = Nothing
    /\ answer' = Nothing
    /\ UNCHANGED layer

Next ==
    \/ \E a \in Addresses : AskAddress(a)
    \/ \E q \in Queries : AskQuery(q) \/ AskCapabilities(q)
    \/ Finish

Spec == Init /\ [][Next]_vars

-----------------------------------------------------------------------------
Served == answer.what \in {"tile", "grid"}

\* A tile or grid that passes the checks of its endpoint, which limit nothing
\* but z, x and y, has a row in the file, the row of no other tile, and a key
\* that no other tile, grid or encoding of the layer has, though zoom, encoding
\* and coordinates are packed into a byte and a word (cache.go 29-46).
KeysAreDistinct ==
    Served =>
        /\ HasRow(answer.z, answer.x, answer.y)
        /\ \A y \in 0..(Width(answer.z) - 1) :
             TmsRow(answer.z, y) = TmsRow(answer.z, answer.y) => y = answer.y
        /\ \A kind \in {"tile", "grid"}, gzip \in BOOLEAN, z \in 0..MaxZoom :
             \A x, y \in 0..(Width(z) - 1) :
                 NewKey(kind, z, x, y, gzip) = answer.key =>
                     <<kind, gzip, z, x, y>> = <<answer.what, answer.gzip, answer.z, answer.x, answer.y>>

\* The limits of WMTS are the tiles that meet the bounds, whatever falls on a
\* border or outside the world, and a point is in the tile that begins at it;
\* the tiles of one zoom are those above the tiles of the next (wmts.go 204-226).
Meets(n, start, end, size) ==
    \/ n * Unit < end * size /\ (n + 1) * Unit > start * size
    \/ /\ start = end
       /\ n * Unit <= start * size
       /\ (n + 1) * Unit > start * size \/ n = size - 1

MeetsBounds(m, z, x, y) ==
    /\ Meets(x, m.west, m.east, Width(z))
    /\ Meets(y, WebMercatorTileRow(m.north), WebMercatorTileRow(m.south), Width(z))

InLimits(m, z, x, y) ==
    LET limits == WebMercatorTileLimits(m, z)
    IN  Between(x, limits.col) /\ Between(y, limits.row)

LimitsAreExact ==
    answer = Nothing => \A z \in 0..MaxZoom : \A x, y \in 0..(Width(z) - 1) :
        /\ InLimits(layer, z, x, y) <=> MeetsBounds(layer, z, x, y)
        /\ z < MaxZoom =>
             (InLimits(layer, z, x, y) <=>
                 \E i, j \in {0, 1} : InLimits(layer, z + 1, 2 * x + i, 2 * y + j))

\* WMTS serves the tiles of the layer's zooms that meet its bounds, which are
\* those its capabilities advertise, all of them servable by address too, and an
\* exception names a parameter that is at fault, as missing exactly if it is
\* (wmts.go 29-160, 281-294).
IsRight(m, q, p) ==
    /\ q[p] \notin {Missing, Wrong}
    /\ p = "TILEMATRIX" => ZoomOf(m, q[p])
    /\ p \in {"TILEROW", "TILECOL"} =>
         \E x, y \in 0..(Width(q.TILEMATRIX) - 1) :
             MeetsBounds(m, q.TILEMATRIX, x, y) /\ q[p] = IF p = "TILECOL" THEN x ELSE y

Parameters == {Checks[i].locator : i \in DOMAIN Checks}

GetTile(z, x, y) ==
    [p \in Parameters \cup {"gzip"} |->
        CASE p = "TILEMATRIX" -> z [] p = "TILEROW" -> y [] p = "TILECOL" -> x [] OTHER -> FALSE]

Advertised(z, x, y) ==
    /\ z \in DOMAIN answer.limits
    /\ Between(x, answer.limits[z].col) /\ Between(y, answer.limits[z].row)

WmtsIsExact ==
    CASE answer.what = "exception" ->
            /\ "TILEROW" \in DOMAIN asked => ~IsRight(layer, asked, answer.locator)
            /\ answer.code = "MissingParameterValue" <=> asked[answer.locator] = Missing
      [] answer.what = "tile" /\ "TILEROW" \in DOMAIN asked ->
            /\ \A p \in Parameters : IsRight(layer, asked, p)
            /\ ZoomOf(layer, answer.z) /\ ValidXYZ(answer.z, answer.x, answer.y)
      [] answer.what = "capabilities" ->
            \A z \in 0..MaxZoom : \A x, y \in 0..(Width(z) - 1) :
                Advertised(z, x, y) <=> QueryAnswer(layer, GetTile(z, x, y)).what = "tile"
      [] OTHER -> TRUE
=============================================================================
