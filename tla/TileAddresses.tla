--------------------------- MODULE TileAddresses ---------------------------
(***************************************************************************)
(* The arithmetic of tile addresses: which are valid (server/tiles.go),    *)
(* the TMS row of a tile (mbtiles/store.go), its key in the response cache *)
(* (cache/cache.go), and the tiles of a layer's bounds (server/wmts.go).   *)
(*                                                                         *)
(* Bounds are fractions of the world of denominator Unit, longitude from   *)
(* the west and latitude, as projected, from the north; a latitude beyond  *)
(* the Mercator limit is a fraction below 0 or above Unit.  The rounding   *)
(* of floating-point numbers is left out.                                  *)
(***************************************************************************)
EXTENDS Integers

CONSTANTS
    MaxZoom,    \* 30
    Word,       \* 2^32: the values of a uint32
    Unit        \* the denominator of bounds

Width(z) == 2^z

ASSUME TileAddressesAssumption ==
    /\ MaxZoom \in 0..126
    /\ Word \in Nat \ {0}
    /\ Unit \in Nat \ {0}
    /\ \A z \in 0..MaxZoom : Width(z) \in 1..Word
    /\ \A z \in 0..(MaxZoom - 1) : Width(z + 1) = 2 * Width(z)

(***************************************************************************)
(* Addresses and rows.                                                     *)
(***************************************************************************)
ValidXYZ(z, x, y) ==
    /\ z \in 0..MaxZoom
    /\ x \in 0..(Width(z) - 1)
    /\ y \in 0..(Width(z) - 1)

NoRow == -1

TmsRow(z, y) ==
    IF z \in 0..MaxZoom /\ y \in 0..(Width(z) - 1) THEN Width(z) - 1 - y ELSE NoRow

\* The test with which Tile and Grid of the store begin.
HasRow(z, x, y) == TmsRow(z, y) # NoRow /\ x >= 0 /\ x < Width(z)

(***************************************************************************)
(* Keys.  Two uint32 side by side make the uint64 of the coordinates; the  *)
(* variant is a uint8.                                                     *)
(***************************************************************************)
\* Variant: the zoom is not shifted to make room for the encoding.
VariantUnshifted(z, gzip) == (z + (IF gzip THEN 1 ELSE 0)) % 256

Variant(z, gzip) == ((2 * z) % 256) + (IF gzip THEN 1 ELSE 0)

NewKey(kind, z, x, y, gzip) ==
    [kind |-> kind, variant |-> Variant(z, gzip), coordinates |-> <<x % Word, y % Word>>]

(***************************************************************************)
(* Limits: the first and last tile from start to end, where a / b is       *)
(* rounded down and up.                                                    *)
(***************************************************************************)
AtLeast(a, b) == IF a < b THEN b ELSE a
AtMost(a, b) == IF a > b THEN b ELSE a

Clamp(a, low, high) == AtMost(AtLeast(a, low), high)

Floor(a, b) == a \div b
Ceil(a, b) == -((-a) \div b)

\* Variant: the tile that begins where the range ends is included.
LastTileInclusive(end, size) == Clamp(Ceil(end * size, Unit), 0, size - 1)

FirstTile(start, size) == Clamp(Floor(start * size, Unit), 0, size - 1)
LastTile(end, size) == Clamp(Ceil(end * size, Unit) - 1, 0, size - 1)

TileIndexRange(start, end, size) ==
    [min |-> FirstTile(start, size),
     max |-> AtLeast(LastTile(end, size), FirstTile(start, size))]

WebMercatorTileRow(latitude) == Clamp(latitude, 0, Unit)

WebMercatorTileLimits(bounds, z) ==
    [col |-> TileIndexRange(bounds.west, bounds.east, Width(z)),
     row |-> TileIndexRange(WebMercatorTileRow(bounds.north), WebMercatorTileRow(bounds.south), Width(z))]

Between(n, range) == range.min <= n /\ n <= range.max
=============================================================================
