------------------------- MODULE TileRequestsProofs -------------------------
(***************************************************************************)
(* Theorems about TileAddresses and TileRequests, for any highest zoom,    *)
(* any width of a word that holds the coordinates of that zoom, and any    *)
(* layers and requests.                                                    *)
(***************************************************************************)
EXTENDS TileRequests, TLAPS

LEMMA WidthIsNat == ASSUME NEW z \in 0..MaxZoom PROVE Width(z) \in Nat /\ Width(z) >= 1 /\ Width(z) <= Word
<1>1. \A i \in 0..MaxZoom : Width(i) \in 1..Word
  BY TileAddressesAssumption
<1>2. Width(z) \in 1..Word /\ Word \in Nat
  BY <1>1, TileAddressesAssumption
<1> QED
  BY <1>2

\* The row of a valid tile is one of the file's zoom, and the flip is its own
\* inverse: no two tiles share a row.
THEOREM RowFlip ==
    ASSUME NEW z \in Int, NEW x \in Int, NEW y \in Int, ValidXYZ(z, x, y)
    PROVE  /\ HasRow(z, x, y)
           /\ TmsRow(z, y) \in 0..(Width(z) - 1)
           /\ TmsRow(z, TmsRow(z, y)) = y
<1>1. z \in 0..MaxZoom /\ Width(z) \in Nat /\ Width(z) >= 1
  BY WidthIsNat DEF ValidXYZ
<1>2. TmsRow(z, y) = Width(z) - 1 - y /\ TmsRow(z, y) \in 0..(Width(z) - 1)
  BY <1>1 DEF ValidXYZ, TmsRow
<1>3. TmsRow(z, TmsRow(z, y)) = Width(z) - 1 - TmsRow(z, y)
  BY <1>1, <1>2 DEF TmsRow
<1>4. x >= 0 /\ x < Width(z) /\ TmsRow(z, y) # NoRow
  BY <1>1, <1>2 DEF ValidXYZ, NoRow
<1> QED
  BY <1>1, <1>2, <1>3, <1>4 DEF HasRow, ValidXYZ

LEMMA WordHoldsCoordinate ==
    ASSUME NEW z \in 0..MaxZoom, NEW c \in 0..(Width(z) - 1)
    PROVE  c % Word = c
<1>1. Word \in Nat /\ Word > 0 /\ c \in Nat /\ c < Word
  BY WidthIsNat, TileAddressesAssumption
<1> QED
  BY <1>1

\* Packing loses nothing: two keys of valid addresses are equal only if kind,
\* zoom, coordinates and encoding are.
THEOREM PackingIsInjective ==
    ASSUME NEW kind, NEW z \in Int, NEW x \in Int, NEW y \in Int, NEW gzip \in BOOLEAN,
           NEW kind2, NEW z2 \in Int, NEW x2 \in Int, NEW y2 \in Int, NEW gzip2 \in BOOLEAN,
           ValidXYZ(z, x, y), ValidXYZ(z2, x2, y2),
           NewKey(kind, z, x, y, gzip) = NewKey(kind2, z2, x2, y2, gzip2)
    PROVE  kind = kind2 /\ z = z2 /\ x = x2 /\ y = y2 /\ gzip = gzip2
<1>1. kind = kind2 /\ Variant(z, gzip) = Variant(z2, gzip2) /\ x % Word = x2 % Word /\ y % Word = y2 % Word
  BY DEF NewKey
<1>2. x = x2 /\ y = y2
  BY <1>1, WordHoldsCoordinate DEF ValidXYZ
<1>3. z \in 0..126 /\ z2 \in 0..126
  BY TileAddressesAssumption DEF ValidXYZ
<1>4. (2 * z) % 256 = 2 * z /\ (2 * z2) % 256 = 2 * z2
  BY <1>3
<1>5. z = z2 /\ gzip = gzip2
  BY <1>1, <1>3, <1>4 DEF Variant
<1> QED
  BY <1>1, <1>2, <1>5

\* Wherever the ends of a range are, in the world or out of it, and in whatever
\* order, its first and last tile exist.
THEOREM LimitsAreTiles ==
    ASSUME NEW start \in Int, NEW end \in Int, NEW size \in Nat \ {0}
    PROVE  LET range == TileIndexRange(start, end, size)
           IN  /\ range.min \in 0..(size - 1)
               /\ range.max \in 0..(size - 1)
               /\ range.min <= range.max
<1> DEFINE first == Floor(start * size, Unit)
           last == Ceil(end * size, Unit) - 1
<1>1. first \in Int /\ last \in Int
  BY TileAddressesAssumption DEF Floor, Ceil
<1>2. FirstTile(start, size) = Clamp(first, 0, size - 1) /\ LastTile(end, size) = Clamp(last, 0, size - 1)
  BY DEF FirstTile, LastTile
<1> HIDE DEF first, last
<1>3. FirstTile(start, size) \in 0..(size - 1) /\ LastTile(end, size) \in 0..(size - 1)
  BY <1>1, <1>2 DEF Clamp, AtLeast, AtMost
<1> QED
  BY <1>3 DEF TileIndexRange, AtLeast

-----------------------------------------------------------------------------
(***************************************************************************)
(* Limits and bounds.  A range's ends and a tile's borders are multiples   *)
(* of Unit, whose products are named: what is left of them is linear.      *)
(***************************************************************************)
LEMMA FloorIs ==
    ASSUME NEW a \in Int, NEW b \in Nat \ {0}
    PROVE  /\ Floor(a, b) \in Int
           /\ Floor(a, b) * b <= a
           /\ a < (Floor(a, b) + 1) * b
BY DEF Floor

LEMMA TimesKeepsOrder ==
    ASSUME NEW m \in Int, NEW n \in Int, NEW b \in Nat \ {0}
    PROVE  m <= n <=> m * b <= n * b
OBVIOUS

\* The multiples at most a number are those at most its floor.
LEMMA MultiplesBelow ==
    ASSUME NEW a \in Int, NEW b \in Nat \ {0}, NEW n \in Int, NEW f \in Int,
           f * b <= a, a < (f + 1) * b
    PROVE  n <= f <=> n * b <= a
<1>1. n * b \in Int /\ f * b \in Int /\ (f + 1) * b \in Int
  OBVIOUS
<1>2. n <= f <=> n * b <= f * b
  BY TimesKeepsOrder
<1>3. f + 1 <= n <=> (f + 1) * b <= n * b
  BY TimesKeepsOrder
<1>4. n <= f \/ f + 1 <= n
  OBVIOUS
<1>5. CASE n <= f
  BY <1>1, <1>2, <1>5
<1>6. CASE f + 1 <= n
  BY <1>1, <1>3, <1>6
<1> QED
  BY <1>4, <1>5, <1>6

\* What a quotient rounded down is at most, and one rounded up is above.
LEMMA FloorBounds ==
    ASSUME NEW a \in Int, NEW b \in Nat \ {0}, NEW n \in Int
    PROVE  /\ Floor(a, b) \in Int
           /\ Ceil(a, b) \in Int
           /\ n <= Floor(a, b) <=> n * b <= a
           /\ n < Ceil(a, b) <=> n * b < a
<1>1. n <= Floor(a, b) <=> n * b <= a
  BY FloorIs, MultiplesBelow
<1>2. PICK c \in Int : Ceil(a, b) = -c /\ c * b <= -a /\ -a < (c + 1) * b
  <2>1. -a \in Int
    OBVIOUS
  <2>2. Floor(-a, b) \in Int /\ Floor(-a, b) * b <= -a /\ -a < (Floor(-a, b) + 1) * b
    BY <2>1, FloorIs
  <2>3. Ceil(a, b) = -Floor(-a, b)
    BY DEF Floor, Ceil
  <2> QED
    BY <2>2, <2>3
<1>3. (-n) <= c <=> (-n) * b <= -a
  BY <1>2, MultiplesBelow
<1>4. (-n) * b = -(n * b) /\ n * b \in Int
  OBVIOUS
<1>5. n >= Ceil(a, b) <=> n * b >= a
  BY <1>2, <1>3, <1>4
<1> QED
  BY <1>1, <1>2, <1>4, <1>5, FloorIs

\* The tiles of a range, for the range's ends as multiples of Unit: a and b.
LEMMA RangeIsMeets ==
    ASSUME NEW start \in 0..Unit, NEW end \in 0..Unit, start <= end,
           NEW size \in Nat \ {0}, NEW n \in 0..(size - 1)
    PROVE  Between(n, TileIndexRange(start, end, size)) <=> Meets(n, start, end, size)
<1> DEFINE a == start * size
           b == end * size
           p == n * Unit
           f == Floor(a, Unit)
           c == Ceil(b, Unit)
<1>1. Unit \in Nat /\ Unit > 0 /\ n \in Int
  BY TileAddressesAssumption
<1>2. a \in Int /\ b \in Int /\ p \in Int /\ (n + 1) * Unit = p + Unit /\ size * Unit \in Int
  BY <1>1
<1>3. 0 <= a /\ a <= b /\ b <= size * Unit
  <2>1. start * size <= end * size /\ 0 * size <= start * size /\ end * size <= Unit * size
    BY <1>1, TimesKeepsOrder
  <2> QED
    BY <1>1, <2>1
<1>4. (start = end => a = b) /\ (start # end => a < b)
  <2>1. start # end => ~(end * size <= start * size)
    BY <1>1, TimesKeepsOrder
  <2> QED
    BY <1>2, <2>1
<1>5. f \in Int /\ c \in Int
  BY <1>1, <1>2, FloorBounds
<1>6. /\ n <= f <=> p <= a
      /\ n + 1 <= f <=> p + Unit <= a
      /\ n < c <=> p < b
  <2> HIDE DEF a, b
  <2>1. ASSUME NEW m \in Int PROVE (m <= f <=> m * Unit <= a) /\ (m < c <=> m * Unit < b)
    BY <1>1, <1>2, FloorBounds
  <2> HIDE DEF f, c
  <2>2. n + 1 \in Int
    BY <1>1
  <2>3. n + 1 <= f <=> (n + 1) * Unit <= a
    BY <2>1, <2>2
  <2> QED
    BY <1>1, <1>2, <2>1, <2>3
<1>7. n <= size - 1 /\ (n = 0 => p = 0)
  BY <1>1
<1>8. n < size - 1 => p + Unit <= (size - 1) * Unit
  BY <1>1, <1>2, TimesKeepsOrder
<1>9. (size - 1) * Unit = size * Unit - Unit
  BY <1>1
<1>10. TileIndexRange(start, end, size) =
         [min |-> Clamp(f, 0, size - 1), max |-> AtLeast(Clamp(c - 1, 0, size - 1), Clamp(f, 0, size - 1))]
  BY DEF TileIndexRange, FirstTile, LastTile
<1>11. Meets(n, start, end, size) <=>
          \/ p < b /\ p + Unit > a
          \/ start = end /\ p <= a /\ (p + Unit > a \/ n = size - 1)
  BY <1>2 DEF Meets
<1> HIDE DEF a, b, p, f, c
<1>12. Between(n, TileIndexRange(start, end, size)) <=>
          /\ n >= f \/ n = size - 1
          /\ n < c \/ n = 0 \/ n <= f
  BY <1>1, <1>5, <1>7, <1>10 DEF Between, Clamp, AtLeast, AtMost
<1>13. n >= f <=> p + Unit > a
  BY <1>1, <1>2, <1>5, <1>6
<1>14. n = size - 1 => p = size * Unit - Unit
  BY <1>9 DEF p
<1>15. start = end => a = b
  BY <1>4
<1>16. start # end => a < b
  BY <1>4
<1>17. (n >= f \/ n = size - 1) /\ (n < c \/ n = 0 \/ n <= f) <=>
          (p + Unit > a \/ n = size - 1) /\ (p < b \/ n = 0 \/ p <= a)
  BY <1>6, <1>13
<1> QED
  BY <1>1, <1>2, <1>3, <1>7, <1>11, <1>12, <1>14, <1>15, <1>16, <1>17
\* A tile meets a range exactly if one of its two halves, of the next zoom, does.
LEMMA HalvesMeet ==
    ASSUME NEW start \in 0..Unit, NEW end \in 0..Unit, start <= end,
           NEW size \in Nat \ {0}, NEW n \in 0..(size - 1)
    PROVE  Meets(n, start, end, size) <=>
             \E i \in {0, 1} : Meets(2 * n + i, start, end, 2 * size)
<1> DEFINE a == start * size
           b == end * size
           p == n * Unit
<1>1. Unit \in Nat /\ Unit > 0 /\ n \in Int
  BY TileAddressesAssumption
<1>2. a \in Int /\ b \in Int /\ p \in Int
  BY <1>1
<1>3. (start = end => a = b) /\ (start # end => a < b)
  <2>1. start # end => ~(end * size <= start * size)
    BY <1>1, TimesKeepsOrder
  <2> QED
    BY <1>2, <2>1
<1>4. /\ (n + 1) * Unit = p + Unit
      /\ (2 * n) * Unit = 2 * p
      /\ (2 * n + 1) * Unit = 2 * p + Unit
      /\ (2 * n + 1 + 1) * Unit = 2 * p + 2 * Unit
      /\ start * (2 * size) = 2 * a
      /\ end * (2 * size) = 2 * b
  BY <1>1
<1>5. Meets(n, start, end, size) <=>
          \/ p < b /\ p + Unit > a
          \/ start = end /\ p <= a /\ (p + Unit > a \/ n = size - 1)
  BY <1>4 DEF Meets
<1>6. Meets(2 * n + 0, start, end, 2 * size) <=>
          \/ 2 * p < 2 * b /\ 2 * p + Unit > 2 * a
          \/ start = end /\ 2 * p <= 2 * a /\ (2 * p + Unit > 2 * a \/ 2 * n = 2 * size - 1)
  <2>1. 2 * n + 0 = 2 * n
    BY <1>1
  <2>2. Meets(2 * n, start, end, 2 * size) <=>
          \/ 2 * p < 2 * b /\ 2 * p + Unit > 2 * a
          \/ start = end /\ 2 * p <= 2 * a /\ (2 * p + Unit > 2 * a \/ 2 * n = 2 * size - 1)
    BY <1>4 DEF Meets
  <2> QED
    BY <2>1, <2>2
<1>7. Meets(2 * n + 1, start, end, 2 * size) <=>
          \/ 2 * p + Unit < 2 * b /\ 2 * p + 2 * Unit > 2 * a
          \/ /\ start = end /\ 2 * p + Unit <= 2 * a
             /\ 2 * p + 2 * Unit > 2 * a \/ 2 * n + 1 = 2 * size - 1
  BY <1>4 DEF Meets
<1>8. (\E i \in {0, 1} : Meets(2 * n + i, start, end, 2 * size)) <=>
          Meets(2 * n + 0, start, end, 2 * size) \/ Meets(2 * n + 1, start, end, 2 * size)
  OBVIOUS
<1> HIDE DEF a, b, p
<1>9. CASE start = end
  BY <1>1, <1>2, <1>3, <1>5, <1>6, <1>7, <1>8, <1>9
<1>10. CASE start # end
  BY <1>1, <1>2, <1>3, <1>5, <1>6, <1>7, <1>8, <1>10
<1> QED
  BY <1>9, <1>10
LEMMA RowsInOrder ==
    ASSUME NEW m, IsLayer(m)
    PROVE  /\ WebMercatorTileRow(m.north) \in 0..Unit
           /\ WebMercatorTileRow(m.south) \in 0..Unit
           /\ WebMercatorTileRow(m.north) <= WebMercatorTileRow(m.south)
BY TileAddressesAssumption DEF IsLayer, WebMercatorTileRow, Clamp, AtLeast, AtMost

\* The limits of a zoom are the tiles that meet the bounds (wmts.go 204-226).
THEOREM LimitsMeetBounds ==
    ASSUME NEW m, IsLayer(m), NEW z \in 0..MaxZoom,
           NEW x \in 0..(Width(z) - 1), NEW y \in 0..(Width(z) - 1)
    PROVE  InLimits(m, z, x, y) <=> MeetsBounds(m, z, x, y)
<1>1. Width(z) \in Nat \ {0}
  BY WidthIsNat
<1>2. m.west \in 0..Unit /\ m.east \in 0..Unit /\ m.west <= m.east
  BY DEF IsLayer
<1>3. Between(x, TileIndexRange(m.west, m.east, Width(z))) <=> Meets(x, m.west, m.east, Width(z))
  BY <1>1, <1>2, RangeIsMeets
<1>4. Between(y, TileIndexRange(WebMercatorTileRow(m.north), WebMercatorTileRow(m.south), Width(z)))
        <=> Meets(y, WebMercatorTileRow(m.north), WebMercatorTileRow(m.south), Width(z))
  BY <1>1, RowsInOrder, RangeIsMeets
<1> QED
  BY <1>3, <1>4 DEF InLimits, MeetsBounds, WebMercatorTileLimits

\* A tile is within the limits of its zoom exactly if one of the four tiles of
\* the next zoom that it is made of is within the limits of that zoom.
THEOREM LimitsOfNextZoom ==
    ASSUME NEW m, IsLayer(m), NEW z \in 0..MaxZoom, z < MaxZoom,
           NEW x \in 0..(Width(z) - 1), NEW y \in 0..(Width(z) - 1)
    PROVE  InLimits(m, z, x, y) <=>
             \E i, j \in {0, 1} : InLimits(m, z + 1, 2 * x + i, 2 * y + j)
<1>1. Width(z) \in Nat \ {0} /\ z + 1 \in 0..MaxZoom /\ Width(z + 1) = 2 * Width(z)
  <2>1. z \in 0..(MaxZoom - 1)
    BY TileAddressesAssumption
  <2> QED
    BY <2>1, WidthIsNat, TileAddressesAssumption
<1>2. \A i \in {0, 1} : 2 * x + i \in 0..(Width(z + 1) - 1) /\ 2 * y + i \in 0..(Width(z + 1) - 1)
  BY <1>1
<1>3. \A i, j \in {0, 1} :
        InLimits(m, z + 1, 2 * x + i, 2 * y + j) <=> MeetsBounds(m, z + 1, 2 * x + i, 2 * y + j)
  BY <1>1, <1>2, LimitsMeetBounds
<1>4. m.west \in 0..Unit /\ m.east \in 0..Unit /\ m.west <= m.east
  BY DEF IsLayer
<1>5. Meets(x, m.west, m.east, Width(z)) <=>
        \E i \in {0, 1} : Meets(2 * x + i, m.west, m.east, Width(z + 1))
  BY <1>1, <1>4, HalvesMeet
<1>6. Meets(y, WebMercatorTileRow(m.north), WebMercatorTileRow(m.south), Width(z)) <=>
        \E j \in {0, 1} :
          Meets(2 * y + j, WebMercatorTileRow(m.north), WebMercatorTileRow(m.south), Width(z + 1))
  BY <1>1, RowsInOrder, HalvesMeet
<1>7. MeetsBounds(m, z, x, y) <=>
        \E i, j \in {0, 1} : MeetsBounds(m, z + 1, 2 * x + i, 2 * y + j)
  BY <1>5, <1>6, Zenon DEF MeetsBounds
<1> QED
  BY <1>3, <1>7, LimitsMeetBounds

-----------------------------------------------------------------------------
(***************************************************************************)
(* What is served has a valid address, by whichever endpoint.              *)
(***************************************************************************)
IsValidAnswer(a) ==
    a.what \in {"tile", "grid"} =>
        /\ a.z \in Int /\ a.x \in Int /\ a.y \in Int /\ a.gzip \in BOOLEAN
        /\ ValidXYZ(a.z, a.x, a.y)
        /\ a.key = NewKey(a.what, a.z, a.x, a.y, a.gzip)

IInv == IsValidAnswer(answer)

LEMMA FoundIsValid ==
    ASSUME NEW kind, NEW z \in Int, NEW x \in Int, NEW y \in Int, NEW gzip \in BOOLEAN, ValidXYZ(z, x, y)
    PROVE  IsValidAnswer(Found(kind, z, x, y, gzip))
BY DEF IsValidAnswer, Found

LEMMA AddressAnswerIsValid ==
    ASSUME NEW m, NEW a \in Addresses
    PROVE  IsValidAnswer(AddressAnswer(m, a))
<1> DEFINE numbers == Wrong \notin {a.z, a.x, a.y}
           inside == numbers /\ ZoomOf(m, a.z) /\ ValidXYZ(a.z, a.x, a.y)
<1>1. CASE inside
  <2>1. a.z \in Int /\ a.x \in Int /\ a.y \in Int /\ a.gzip \in BOOLEAN
    BY <1>1, WidthIsNat, TileRequestsAssumption, TileAddressesAssumption DEF ValidXYZ
  <2>2. \A kind : \A gzip \in BOOLEAN : IsValidAnswer(Found(kind, a.z, a.x, a.y, gzip))
    BY <1>1, <2>1, FoundIsValid
  <2> QED
    BY <2>1, <2>2 DEF AddressAnswer, NotFound, IsValidAnswer
<1>2. CASE ~inside
  BY <1>2 DEF AddressAnswer, NotFound, IsValidAnswer
<1> QED
  BY <1>1, <1>2

LEMMA ChecksMakeValid ==
    ASSUME NEW m, NEW q \in Queries, \A i \in DOMAIN Checks : Passes(m, q, Checks[i])
    PROVE  /\ q.TILEMATRIX \in Int /\ q.TILECOL \in Int /\ q.TILEROW \in Int
           /\ ValidXYZ(q.TILEMATRIX, q.TILECOL, q.TILEROW)
<1>1. Passes(m, q, [locator |-> "TILEMATRIX", test |-> "number"])
  BY DEF Checks
<1>2. Passes(m, q, [locator |-> "TILEROW", test |-> "number"])
  BY DEF Checks
<1>3. Passes(m, q, [locator |-> "TILECOL", test |-> "number"])
  BY DEF Checks
<1>4. Passes(m, q, [locator |-> "TILEROW", test |-> "matrix"])
  BY DEF Checks
<1>5. Passes(m, q, [locator |-> "TILECOL", test |-> "matrix"])
  BY DEF Checks
<1>6. q.TILEMATRIX \in Int /\ q.TILECOL \in Int /\ q.TILEROW \in Int
  BY <1>1, <1>2, <1>3, TileRequestsAssumption DEF Passes, Number
<1>7. q.TILEMATRIX \in 0..MaxZoom /\ q.TILEROW >= 0 /\ q.TILECOL >= 0
  BY <1>1, <1>2, <1>3, <1>6, TileAddressesAssumption DEF Passes
<1>8. q.TILEROW < Width(q.TILEMATRIX) /\ q.TILECOL < Width(q.TILEMATRIX)
  BY <1>4, <1>5 DEF Passes
<1> QED
  BY <1>6, <1>7, <1>8, WidthIsNat DEF ValidXYZ

LEMMA QueryAnswerIsValid ==
    ASSUME NEW m, NEW q \in Queries
    PROVE  IsValidAnswer(QueryAnswer(m, q))
<1>1. CASE \A i \in DOMAIN Checks : Passes(m, q, Checks[i])
  <2>1. (q.gzip /\ m.extension = "pbf") \in BOOLEAN
    BY TileRequestsAssumption
  <2> QED
    BY <1>1, <2>1, ChecksMakeValid, FoundIsValid DEF QueryAnswer
<1>2. CASE ~\A i \in DOMAIN Checks : Passes(m, q, Checks[i])
  BY <1>2 DEF QueryAnswer, Exception, IsValidAnswer
<1> QED
  BY <1>1, <1>2

LEMMA InitIInv == Init => IInv
BY DEF Init, Nothing, IInv, IsValidAnswer

LEMMA StepIInv == IInv /\ [Next]_vars => IInv'
<1> SUFFICES ASSUME IInv, [Next]_vars PROVE IInv'
  OBVIOUS
<1>1. ASSUME NEW a \in Addresses, AskAddress(a) PROVE IInv'
  BY <1>1, AddressAnswerIsValid DEF AskAddress, IInv
<1>2. ASSUME NEW q \in Queries, AskQuery(q) PROVE IInv'
  BY <1>2, QueryAnswerIsValid DEF AskQuery, IInv
<1>3. ASSUME NEW q \in Queries, AskCapabilities(q) PROVE IInv'
  BY <1>3 DEF AskCapabilities, CapabilitiesAnswer, Exception, IInv, IsValidAnswer
<1>4. CASE Finish
  BY <1>4 DEF Finish, Nothing, IInv, IsValidAnswer
<1>5. CASE UNCHANGED vars
  BY <1>5 DEF vars, IInv
<1> QED
  BY <1>1, <1>2, <1>3, <1>4, <1>5 DEF Next

\* Both endpoints only look up valid addresses, whatever they are asked.
THEOREM OnlyValidIsServed == Spec => []IInv
BY InitIInv, StepIInv, PTL DEF Spec

\* So what is served has a row of its own and a key of its own.
THEOREM KeysAndRowsAreDistinct == Spec => []KeysAreDistinct
<1>1. ASSUME IInv PROVE KeysAreDistinct
  <2> SUFFICES ASSUME Served PROVE KeysAreDistinct
    BY DEF KeysAreDistinct
  <2>1. /\ answer.z \in Int /\ answer.x \in Int /\ answer.y \in Int /\ answer.gzip \in BOOLEAN
        /\ ValidXYZ(answer.z, answer.x, answer.y)
        /\ answer.key = NewKey(answer.what, answer.z, answer.x, answer.y, answer.gzip)
    BY <1>1 DEF IInv, IsValidAnswer, Served
  <2>2. HasRow(answer.z, answer.x, answer.y)
    BY <2>1, RowFlip
  <2>3. ASSUME NEW y \in 0..(Width(answer.z) - 1), TmsRow(answer.z, y) = TmsRow(answer.z, answer.y)
        PROVE  y = answer.y
    <3>1. y \in Int /\ ValidXYZ(answer.z, answer.x, y)
      BY <2>1, WidthIsNat DEF ValidXYZ
    <3> QED
      BY <2>1, <2>3, <3>1, RowFlip
  <2>4. ASSUME NEW kind \in {"tile", "grid"}, NEW gzip \in BOOLEAN, NEW z \in 0..MaxZoom,
               NEW x \in 0..(Width(z) - 1), NEW y \in 0..(Width(z) - 1),
               NewKey(kind, z, x, y, gzip) = answer.key
        PROVE  <<kind, gzip, z, x, y>> = <<answer.what, answer.gzip, answer.z, answer.x, answer.y>>
    <3>1. z \in Int /\ x \in Int /\ y \in Int /\ ValidXYZ(z, x, y)
      BY WidthIsNat, TileAddressesAssumption DEF ValidXYZ
    <3> QED
      BY <2>1, <2>4, <3>1, PackingIsInjective
  <2> QED
    BY <2>2, <2>3, <2>4 DEF KeysAreDistinct
<1> QED
  BY <1>1, OnlyValidIsServed, PTL

-----------------------------------------------------------------------------
(***************************************************************************)
(* What was asked determines the answer, and the layer is one a store may  *)
(* have: from these follows what LimitsAreExact and WmtsIsExact say.       *)
(***************************************************************************)
IsAnswered ==
    \/ asked = Nothing /\ answer = Nothing
    \/ \E a \in Addresses : asked = a /\ answer = AddressAnswer(layer, a)
    \/ \E q \in Queries :
         \/ asked = q /\ answer = QueryAnswer(layer, q)
         \/ /\ asked = [SERVICE |-> q.SERVICE, VERSION |-> q.VERSION]
            /\ answer = CapabilitiesAnswer(layer, q)

AInv == layer \in Layers /\ IsAnswered

LEMMA InitAInv == Init => AInv
BY DEF Init, AInv, IsAnswered

LEMMA StepAInv == AInv /\ [Next]_vars => AInv'
<1> SUFFICES ASSUME AInv, [Next]_vars PROVE AInv'
  OBVIOUS
<1>1. ASSUME NEW a \in Addresses, AskAddress(a) PROVE AInv'
  BY <1>1 DEF AskAddress, AInv, IsAnswered
<1>2. ASSUME NEW q \in Queries, AskQuery(q) PROVE AInv'
  BY <1>2 DEF AskQuery, AInv, IsAnswered
<1>3. ASSUME NEW q \in Queries, AskCapabilities(q) PROVE AInv'
  BY <1>3 DEF AskCapabilities, AInv, IsAnswered
<1>4. CASE Finish
  BY <1>4 DEF Finish, AInv, IsAnswered
<1>5. CASE UNCHANGED vars
  BY <1>5 DEF vars, AInv, IsAnswered
<1> QED
  BY <1>1, <1>2, <1>3, <1>4, <1>5 DEF Next

\* The answer stays that of the layer to what was asked.
THEOREM AnswersAreKept == Spec => []AInv
BY InitAInv, StepAInv, PTL DEF Spec

\* The limits of every layer are the tiles that meet its bounds, at every zoom,
\* and those of one zoom lie above those of the next (wmts.go 204-226).
THEOREM ExactLimits == Spec => []LimitsAreExact
<1>1. ASSUME AInv PROVE LimitsAreExact
  <2>1. IsLayer(layer)
    BY <1>1, TileRequestsAssumption DEF AInv
  <2>2. ASSUME NEW z \in 0..MaxZoom, NEW x \in 0..(Width(z) - 1), NEW y \in 0..(Width(z) - 1)
        PROVE  /\ InLimits(layer, z, x, y) <=> MeetsBounds(layer, z, x, y)
               /\ z < MaxZoom =>
                    (InLimits(layer, z, x, y) <=>
                       \E i, j \in {0, 1} : InLimits(layer, z + 1, 2 * x + i, 2 * y + j))
    BY <2>1, LimitsMeetBounds, LimitsOfNextZoom
  <2> QED
    BY <2>2 DEF LimitsAreExact
<1> QED
  BY <1>1, AnswersAreKept, PTL

-----------------------------------------------------------------------------
(***************************************************************************)
(* WMTS.  Of the checks that fail there is a first, which is answered.     *)
(***************************************************************************)
LEMMA Smallest ==
    ASSUME NEW S \in SUBSET (1..15), S # {}
    PROVE  \E i \in S : \A j \in 1..(i - 1) : j \notin S
<1> SUFFICES ASSUME \A i \in S : \E j \in 1..(i - 1) : j \in S PROVE FALSE
  OBVIOUS
<1>1. \A i \in 1..3 : i \notin S
  OBVIOUS
<1>2. \A i \in 1..6 : i \notin S
  BY <1>1
<1>3. \A i \in 1..9 : i \notin S
  BY <1>2
<1>4. \A i \in 1..12 : i \notin S
  BY <1>3
<1>5. \A i \in 1..15 : i \notin S
  BY <1>4
<1> QED
  BY <1>5

LEMMA OneIsFirst ==
    ASSUME NEW m, NEW q, ~\A i \in DOMAIN Checks : Passes(m, q, Checks[i])
    PROVE  \E i \in 1..15 : /\ IsFirst(m, q, i)
                            /\ QueryAnswer(m, q) = Exception(Code(q, Checks[i]), Checks[i].locator)
<1> DEFINE first == CHOOSE i \in DOMAIN Checks : IsFirst(m, q, i)
           S == {i \in 1..15 : ~Passes(m, q, Checks[i])}
<1>1. DOMAIN Checks = 1..15
  BY DEF Checks
<1>2. S # {} /\ S \in SUBSET (1..15)
  BY <1>1
<1>3. PICK i \in S : \A j \in 1..(i - 1) : j \notin S
  <2> HIDE DEF S
  <2> QED
    BY <1>2, Smallest
<1>4. i \in 1..15 /\ \A j \in 1..(i - 1) : j \in 1..15
  BY <1>3
<1>5. IsFirst(m, q, i)
  BY <1>3, <1>4 DEF IsFirst
<1>6. first \in 1..15 /\ IsFirst(m, q, first)
  BY <1>1, <1>4, <1>5
<1>7. QueryAnswer(m, q) = Exception(Code(q, Checks[first]), Checks[first].locator)
  BY DEF QueryAnswer
<1> QED
  BY <1>6, <1>7

\* Wherever the bounds of a layer are, some tile of each zoom meets them: its
\* first column and row.
LEMMA SomeTileMeets ==
    ASSUME NEW m, IsLayer(m), NEW z \in 0..MaxZoom
    PROVE  /\ \E x \in 0..(Width(z) - 1) : Meets(x, m.west, m.east, Width(z))
           /\ \E y \in 0..(Width(z) - 1) :
                Meets(y, WebMercatorTileRow(m.north), WebMercatorTileRow(m.south), Width(z))
<1>1. Width(z) \in Nat \ {0} /\ 0..Unit \subseteq Int
  BY WidthIsNat, TileAddressesAssumption
<1>2. ASSUME NEW start \in 0..Unit, NEW end \in 0..Unit, start <= end
      PROVE  \E n \in 0..(Width(z) - 1) : Meets(n, start, end, Width(z))
  <2> DEFINE range == TileIndexRange(start, end, Width(z))
  <2>1. start \in Int /\ end \in Int
    BY <1>1
  <2>2. range.min \in 0..(Width(z) - 1) /\ range.max \in 0..(Width(z) - 1) /\ range.min <= range.max
    BY <1>1, <2>1, LimitsAreTiles
  <2>3. Between(range.min, range)
    <3> HIDE DEF range
    <3> QED
      BY <1>1, <2>2 DEF Between
  <2>4. Meets(range.min, start, end, Width(z))
    BY <1>1, <1>2, <2>2, <2>3, RangeIsMeets
  <2> QED
    BY <2>2, <2>4
<1>3. m.west \in 0..Unit /\ m.east \in 0..Unit /\ m.west <= m.east
  BY DEF IsLayer
<1> QED
  BY <1>2, <1>3, RowsInOrder

\* A row or column is right exactly if it is within the limits of its zoom.
LEMMA RightIsWithinLimits ==
    ASSUME NEW m, IsLayer(m), NEW q, q.TILEMATRIX \in 0..MaxZoom, ZoomOf(m, q.TILEMATRIX),
           NEW p \in {"TILEROW", "TILECOL"}
    PROVE  IsRight(m, q, p) <=>
             /\ q[p] \notin {Missing, Wrong}
             /\ q[p] \in 0..(Width(q.TILEMATRIX) - 1)
             /\ Between(q[p], LimitsFor(m, q, p))
<1> DEFINE z == q.TILEMATRIX
           north == WebMercatorTileRow(m.north)
           south == WebMercatorTileRow(m.south)
<1>1. Width(z) \in Nat \ {0}
  BY WidthIsNat
<1>2. m.west \in 0..Unit /\ m.east \in 0..Unit /\ m.west <= m.east
  BY DEF IsLayer
<1>3. north \in 0..Unit /\ south \in 0..Unit /\ north <= south
  BY RowsInOrder
<1>4. \A n \in 0..(Width(z) - 1) :
        /\ Between(n, TileIndexRange(m.west, m.east, Width(z))) <=> Meets(n, m.west, m.east, Width(z))
        /\ Between(n, TileIndexRange(north, south, Width(z))) <=> Meets(n, north, south, Width(z))
  <2> HIDE DEF north, south
  <2> QED
    BY <1>1, <1>2, <1>3, RangeIsMeets
<1>5. PICK x0 \in 0..(Width(z) - 1), y0 \in 0..(Width(z) - 1) :
        Meets(x0, m.west, m.east, Width(z)) /\ Meets(y0, north, south, Width(z))
  BY SomeTileMeets
<1>6. \A x, y \in 0..(Width(z) - 1) :
        MeetsBounds(m, z, x, y) <=> Meets(x, m.west, m.east, Width(z)) /\ Meets(y, north, south, Width(z))
  BY DEF MeetsBounds
<1>7. WebMercatorTileLimits(m, z) = [col |-> TileIndexRange(m.west, m.east, Width(z)),
                                     row |-> TileIndexRange(north, south, Width(z))]
  BY DEF WebMercatorTileLimits
<1>8. CASE p = "TILECOL"
  <2>1. LimitsFor(m, q, p) = TileIndexRange(m.west, m.east, Width(z))
    BY <1>7, <1>8 DEF LimitsFor
  <2>2. IsRight(m, q, p) <=>
          /\ q[p] \notin {Missing, Wrong}
          /\ \E x, y \in 0..(Width(z) - 1) : MeetsBounds(m, z, x, y) /\ q[p] = x
    BY <1>8 DEF IsRight
  <2> HIDE DEF north, south
  <2> QED
    BY <1>4, <1>5, <1>6, <2>1, <2>2
<1>9. CASE p = "TILEROW"
  <2>1. LimitsFor(m, q, p) = TileIndexRange(north, south, Width(z))
    BY <1>7, <1>9 DEF LimitsFor
  <2>2. IsRight(m, q, p) <=>
          /\ q[p] \notin {Missing, Wrong}
          /\ \E x, y \in 0..(Width(z) - 1) : MeetsBounds(m, z, x, y) /\ q[p] = y
    BY <1>9 DEF IsRight
  <2> HIDE DEF north, south
  <2> QED
    BY <1>4, <1>5, <1>6, <2>1, <2>2
<1> QED
  BY <1>8, <1>9

LEMMA NumbersAreKnown ==
    ASSUME NEW q \in Queries, NEW p \in {"TILEMATRIX", "TILEROW", "TILECOL"}
    PROVE  q[p] \in Int \/ q[p] \in {Missing, Wrong}
BY TileRequestsAssumption DEF Number

\* The parameter of the first check to fail is at fault.
LEMMA FirstIsAtFault ==
    ASSUME NEW m, IsLayer(m), NEW q \in Queries, NEW i \in 1..15, IsFirst(m, q, i)
    PROVE  ~IsRight(m, q, Checks[i].locator)
<1>1. \A j \in 1..(i - 1) : Passes(m, q, Checks[j])
  BY DEF IsFirst
<1>2. ~Passes(m, q, Checks[i])
  BY DEF IsFirst
<1>3. CASE Checks[i].test = "value"
  BY <1>2, <1>3 DEF Passes, IsRight
<1>4. CASE i = 8
  <2>1. Checks[8] = [locator |-> "TILEMATRIX", test |-> "number"]
    BY DEF Checks
  <2>2. q.TILEMATRIX \in {Missing, Wrong} \/ ~(q.TILEMATRIX >= 0 /\ q.TILEMATRIX <= MaxZoom)
    BY <1>2, <1>4, <2>1 DEF Passes
  <2>3. IsRight(m, q, "TILEMATRIX") => q.TILEMATRIX \in 0..MaxZoom
    BY NumbersAreKnown, TileAddressesAssumption DEF IsRight, ZoomOf, IsLayer
  <2> QED
    BY <1>4, <2>1, <2>2, <2>3 DEF IsRight
<1>5. CASE i \in 9..15
  <2>1. Passes(m, q, [locator |-> "TILEMATRIX", test |-> "number"])
    <3>1. Checks[8] = [locator |-> "TILEMATRIX", test |-> "number"] /\ 8 \in 1..(i - 1)
      BY <1>5 DEF Checks
    <3> QED
      BY <1>1, <3>1
  <2>2. q.TILEMATRIX \in 0..MaxZoom
    BY <2>1, NumbersAreKnown, TileAddressesAssumption DEF Passes
  <2>3. CASE i = 9
    BY <1>2, <2>3 DEF Checks, Passes, IsRight
  <2>4. CASE i \in 10..15
    <3>1. ZoomOf(m, q.TILEMATRIX)
      <4>1. Checks[9] = [locator |-> "TILEMATRIX", test |-> "zoom"] /\ 9 \in 1..(i - 1)
        BY <2>4 DEF Checks
      <4>2. Passes(m, q, [locator |-> "TILEMATRIX", test |-> "zoom"])
        BY <1>1, <4>1
      <4> QED
        BY <4>2 DEF Passes
    <3>2. /\ Checks[i].locator \in {"TILEROW", "TILECOL"}
          /\ Checks[i].test \in {"number", "matrix", "limits"}
      BY <2>4 DEF Checks
    <3> DEFINE p == Checks[i].locator
               n == q[p]
    <3>3. SUFFICES ASSUME n \notin {Missing, Wrong}, n \in 0..(Width(q.TILEMATRIX) - 1),
                          Between(n, LimitsFor(m, q, p))
                   PROVE  FALSE
      BY <2>2, <3>1, <3>2, RightIsWithinLimits
    <3>4. n \in Int /\ n >= 0 /\ n < Width(q.TILEMATRIX)
      BY <2>2, <3>3, WidthIsNat
    <3> QED
      BY <1>2, <3>2, <3>3, <3>4 DEF Passes
  <2> QED
    BY <1>5, <2>3, <2>4
<1>6. Checks[i].test = "value" \/ i \in 8..15
  BY DEF Checks
<1> QED
  BY <1>3, <1>4, <1>5, <1>6

\* A query that passes every check is right in every parameter.
LEMMA AllRight ==
    ASSUME NEW m, IsLayer(m), NEW q \in Queries, \A i \in DOMAIN Checks : Passes(m, q, Checks[i])
    PROVE  /\ \A p \in Parameters : IsRight(m, q, p)
           /\ ZoomOf(m, q.TILEMATRIX)
<1>1. \A i \in 1..15 : Passes(m, q, Checks[i]) 
  BY DEF Checks
<1>2. /\ q.TILEMATRIX \in Int /\ q.TILECOL \in Int /\ q.TILEROW \in Int
      /\ ValidXYZ(q.TILEMATRIX, q.TILECOL, q.TILEROW)
  BY ChecksMakeValid
<1>3. ZoomOf(m, q.TILEMATRIX)
  <2>1. Checks[9] = [locator |-> "TILEMATRIX", test |-> "zoom"]
    BY DEF Checks
  <2> QED
    BY <1>1, <2>1 DEF Passes
<1>4. ASSUME NEW p \in {"TILEROW", "TILECOL"} PROVE IsRight(m, q, p)
  <2>1. Checks[14] = [locator |-> "TILEROW", test |-> "limits"]
        /\ Checks[15] = [locator |-> "TILECOL", test |-> "limits"]
    BY DEF Checks
  <2>2. Between(q[p], LimitsFor(m, q, p))
    BY <1>1, <2>1 DEF Passes
  <2>3. q[p] \in Int /\ q[p] \in 0..(Width(q.TILEMATRIX) - 1) /\ q[p] \notin {Missing, Wrong}
    BY <1>2, TileRequestsAssumption DEF ValidXYZ
  <2> QED
    BY <1>2, <1>3, <2>2, <2>3, RightIsWithinLimits DEF ValidXYZ
<1>5. IsRight(m, q, "TILEMATRIX")
  BY <1>2, <1>3, TileRequestsAssumption DEF IsRight
<1>6. ASSUME NEW i \in 1..15, Checks[i].test = "value" PROVE IsRight(m, q, Checks[i].locator)
  <2>1. q[Checks[i].locator] \notin {Missing, Wrong}
    BY <1>1, <1>6 DEF Passes
  <2>2. Checks[i].locator \notin {"TILEMATRIX", "TILEROW", "TILECOL"}
    BY <1>6 DEF Checks
  <2> QED
    BY <2>1, <2>2 DEF IsRight
<1>7. \A i \in 1..15 :
        Checks[i].test = "value" \/ Checks[i].locator \in {"TILEMATRIX", "TILEROW", "TILECOL"}
  BY DEF Checks
<1>8. Parameters = {Checks[i].locator : i \in 1..15}
  BY DEF Parameters, Checks
<1> QED
  BY <1>3, <1>4, <1>5, <1>6, <1>7, <1>8

\* The capabilities advertise the tiles that a right query is answered with.
LEMMA AdvertisedIsServed ==
    ASSUME NEW m, IsLayer(m), NEW z \in 0..MaxZoom,
           NEW x \in 0..(Width(z) - 1), NEW y \in 0..(Width(z) - 1)
    PROVE  QueryAnswer(m, GetTile(z, x, y)).what = "tile" <=>
             ZoomOf(m, z) /\ Between(x, WebMercatorTileLimits(m, z).col)
                          /\ Between(y, WebMercatorTileLimits(m, z).row)
<1> DEFINE q == GetTile(z, x, y)
<1>1. \A i \in 1..15 : Checks[i].locator \in Parameters
  BY DEF Parameters, Checks
<1>2. q.TILEMATRIX = z /\ q.TILEROW = y /\ q.TILECOL = x
  <2>1. {"TILEMATRIX", "TILEROW", "TILECOL"} \subseteq Parameters
    BY <1>1 DEF Checks
  <2> QED
    BY <2>1 DEF GetTile
<1>3. \A p \in Parameters : p \notin {"TILEMATRIX", "TILEROW", "TILECOL"} => q[p] = FALSE
  BY DEF GetTile
<1> HIDE DEF q
<1>4. z \in Int /\ x \in Int /\ y \in Int /\ Width(z) \in Nat
  BY WidthIsNat, TileAddressesAssumption
<1>5. z \notin {Missing, Wrong} /\ x \notin {Missing, Wrong} /\ y \notin {Missing, Wrong}
      /\ FALSE \notin {Missing, Wrong}
  BY <1>4, TileRequestsAssumption
<1>6. ASSUME NEW i \in 1..7 PROVE Passes(m, q, Checks[i])
  <2>1. Checks[i].test = "value" /\ Checks[i].locator \notin {"TILEMATRIX", "TILEROW", "TILECOL"}
    BY DEF Checks
  <2>2. Checks[i].locator \in Parameters
    BY <1>1
  <2>3. q[Checks[i].locator] = FALSE
    BY <1>3, <2>1, <2>2
  <2> QED
    BY <1>5, <2>1, <2>3 DEF Passes
<1>7. Passes(m, q, Checks[8]) /\ Passes(m, q, Checks[10]) /\ Passes(m, q, Checks[11])
  BY <1>2, <1>4, <1>5, TileAddressesAssumption DEF Checks, Passes
<1>8. Passes(m, q, Checks[9]) <=> ZoomOf(m, z)
  BY <1>2 DEF Checks, Passes
<1>9. Passes(m, q, Checks[12]) /\ Passes(m, q, Checks[13])
  BY <1>2, <1>4 DEF Checks, Passes
<1>10. Passes(m, q, Checks[14]) <=> Between(y, WebMercatorTileLimits(m, z).row)
  BY <1>2 DEF Checks, Passes, LimitsFor
<1>11. Passes(m, q, Checks[15]) <=> Between(x, WebMercatorTileLimits(m, z).col)
  BY <1>2 DEF Checks, Passes, LimitsFor
<1>12. DOMAIN Checks = 1..15
  BY DEF Checks
<1>13. (\A i \in DOMAIN Checks : Passes(m, q, Checks[i])) <=>
         ZoomOf(m, z) /\ Between(x, WebMercatorTileLimits(m, z).col)
                      /\ Between(y, WebMercatorTileLimits(m, z).row)
  <2>1. \A i \in 1..15 : i \in 1..7 \/ i \in {8, 9, 10, 11, 12, 13, 14, 15}
    OBVIOUS
  <2> QED
    BY <1>6, <1>7, <1>8, <1>9, <1>10, <1>11, <1>12, <2>1
<1>14. QueryAnswer(m, q).what = "tile" <=> \A i \in DOMAIN Checks : Passes(m, q, Checks[i])
  BY DEF QueryAnswer, Found, Exception
<1> QED
  BY <1>13, <1>14 DEF q

LEMMA CodeIsMissing == ASSUME NEW q, NEW c PROVE Code(q, c) = "MissingParameterValue" <=> q[c.locator] = Missing
BY DEF Code

\* WMTS serves exactly the tiles its capabilities advertise, all of them with a
\* valid address, and an exception names a parameter at fault (wmts.go 29-160).
THEOREM ExactWmts == Spec => []WmtsIsExact
<1>1. ASSUME AInv PROVE WmtsIsExact
  <2>1. IsLayer(layer)
    BY <1>1, TileRequestsAssumption DEF AInv
  <2>2. CASE answer = Nothing
    BY <2>2 DEF WmtsIsExact, Nothing
  <2>3. CASE \E a \in Addresses : asked = a /\ answer = AddressAnswer(layer, a)
    <3>1. "TILEROW" \notin DOMAIN asked
      BY <2>3, TileRequestsAssumption
    <3>2. answer.what \notin {"exception", "capabilities"}
      BY <2>3 DEF AddressAnswer, Found, NotFound
    <3> QED
      BY <3>1, <3>2 DEF WmtsIsExact
  <2>4. ASSUME NEW q \in Queries, asked = q, answer = QueryAnswer(layer, q) PROVE WmtsIsExact
    <3>1. CASE \A i \in DOMAIN Checks : Passes(layer, q, Checks[i])
      <4>1. answer.what = "tile" /\ answer.z = q.TILEMATRIX /\ answer.x = q.TILECOL /\ answer.y = q.TILEROW
        BY <2>4, <3>1 DEF QueryAnswer, Found
      <4>2. /\ \A p \in Parameters : IsRight(layer, asked, p)
            /\ ZoomOf(layer, answer.z) /\ ValidXYZ(answer.z, answer.x, answer.y)
        BY <2>1, <2>4, <3>1, <4>1, AllRight, ChecksMakeValid
      <4> QED
        BY <4>1, <4>2 DEF WmtsIsExact
    <3>2. CASE ~\A i \in DOMAIN Checks : Passes(layer, q, Checks[i])
      <4>1. PICK i \in 1..15 :
              IsFirst(layer, q, i) /\ answer = Exception(Code(q, Checks[i]), Checks[i].locator)
        BY <2>4, <3>2, OneIsFirst
      <4>2. /\ answer.what = "exception" /\ answer.code = Code(q, Checks[i])
            /\ answer.locator = Checks[i].locator
        BY <4>1 DEF Exception
      <4>3. ~IsRight(layer, asked, answer.locator)
        BY <2>1, <2>4, <4>1, <4>2, FirstIsAtFault
      <4>4. answer.code = "MissingParameterValue" <=> asked[answer.locator] = Missing
        BY <2>4, <4>2, CodeIsMissing
      <4> QED
        BY <4>2, <4>3, <4>4 DEF WmtsIsExact
    <3> QED
      BY <3>1, <3>2
  <2>5. ASSUME NEW q \in Queries, asked = [SERVICE |-> q.SERVICE, VERSION |-> q.VERSION],
               answer = CapabilitiesAnswer(layer, q)
        PROVE  WmtsIsExact
    <3>1. CASE q.SERVICE \in {Missing, Wrong} \/ q.VERSION = Wrong
      <4>1. /\ answer.what = "exception"
            /\ answer.code = "MissingParameterValue" <=> asked[answer.locator] = Missing
        BY <2>5, <3>1, TileRequestsAssumption DEF CapabilitiesAnswer, Exception
      <4>2. "TILEROW" \notin DOMAIN asked
        BY <2>5
      <4> QED
        BY <4>1, <4>2 DEF WmtsIsExact
    <3>2. CASE ~(q.SERVICE \in {Missing, Wrong} \/ q.VERSION = Wrong)
      <4>1. /\ answer.what = "capabilities"
            /\ answer.limits = [z \in layer.minZoom..layer.maxZoom |-> WebMercatorTileLimits(layer, z)]
        BY <2>5, <3>2 DEF CapabilitiesAnswer
      <4>2. ASSUME NEW z \in 0..MaxZoom, NEW x \in 0..(Width(z) - 1), NEW y \in 0..(Width(z) - 1)
            PROVE  Advertised(z, x, y) <=> QueryAnswer(layer, GetTile(z, x, y)).what = "tile"
        <5>1. z \in layer.minZoom..layer.maxZoom <=> ZoomOf(layer, z)
          BY <2>1, TileAddressesAssumption DEF IsLayer, ZoomOf
        <5> QED
          BY <2>1, <4>1, <5>1, AdvertisedIsServed DEF Advertised
      <4> QED
        BY <4>1, <4>2 DEF WmtsIsExact
    <3> QED
      BY <3>1, <3>2
  <2> QED
    BY <1>1, <2>2, <2>3, <2>4, <2>5 DEF AInv, IsAnswered
<1> QED
  BY <1>1, AnswersAreKept, PTL
=============================================================================
