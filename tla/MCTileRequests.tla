--------------------------- MODULE MCTileRequests ---------------------------
\* An instance of TileRequests: four zooms, and bounds on and off the borders
\* of tiles, outside the world, and shrunk to a line or a point.
EXTENDS TileRequests

Bounds ==
    {b \in [west : {0, 3, 5, 12}, east : {3, 5, 12}, north : {-1, 3, 13}, south : {3, 7, 13}] :
        b.west <= b.east /\ b.north <= b.south}

Layer(b, e) ==
    [minZoom |-> 1, maxZoom |-> 2, extension |-> e, hasUTFGrid |-> e = "png",
     west |-> b.west, east |-> b.east, north |-> b.north, south |-> b.south]

MCLayers == {Layer(b, "pbf") : b \in Bounds} \cup {Layer(b, "png") : b \in {c \in Bounds : c.west = 5}}

MCAddresses ==
    [z : {Wrong} \cup -1..4, x : {Wrong} \cup -1..4, y : {Wrong, -1, 0, 3, 4},
     extension : {"mvt", "png", "grid.json"}, gzip : BOOLEAN]

Texts == {"SERVICE", "REQUEST", "VERSION", "LAYER", "STYLE", "FORMAT", "TILEMATRIXSET"}
Right == [p \in Texts |-> "right"]

\* All texts right and any numbers, or a text that is not and a few numbers.
NumberQueries ==
    [TILEMATRIX : {Missing, Wrong} \cup -1..4, TILEROW : {Missing, Wrong} \cup -1..4,
     TILECOL : {Missing, Wrong} \cup -1..4, gzip : {TRUE}]
TextQueries ==
    [TILEMATRIX : {Missing, 2}, TILEROW : {2}, TILECOL : {Wrong, 1}, gzip : {FALSE}]
TextFaults == {[Right EXCEPT ![p] = v, ![o] = w] : p, o \in Texts, v, w \in {Missing, Wrong}}

Query(texts, numbers) ==
    [p \in Texts \cup DOMAIN numbers |-> IF p \in Texts THEN texts[p] ELSE numbers[p]]

MCQueries ==
    {Query(Right, n) : n \in NumberQueries} \cup {Query(t, n) : t \in TextFaults, n \in TextQueries}
=============================================================================
