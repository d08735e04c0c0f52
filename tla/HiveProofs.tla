------------------------------ MODULE HiveProofs ------------------------------
(***************************************************************************)
(* Proofs about the hive, on a map, with a base and with brushes of any    *)
(* size.  Of the editor (HiveEditor): every gesture keeps the tiles of the *)
(* drawing apart, places and members on one tile, and people where they    *)
(* stand.  Of two officers and one board (HiveSave), for any roster and    *)
(* supply of ids: the board keeps its keys, ids keep their ground, and a   *)
(* save puts nobody where they were not put.  Of what an officer's browser *)
(* does with the hive, for a ladder of zooms and pictures of any size      *)
(* (MCScreens): a press edits once at most, sliding edits nothing, the     *)
(* window shows its centre.                                                *)
(***************************************************************************)
EXTENDS MCScreens, HiveSave, Sequences, FiniteSetTheorems, WellFoundedInduction, TLAPS

USE MapAssumption

\* What the geometry needs of a tile.
Shape(t) == t.dx \in Int /\ t.dy \in Int /\ t.spanX \in Nat \ {0} /\ t.spanY \in Nat \ {0}

LEMMA OverlapSymmetric ==
  ASSUME NEW a, NEW b, Shape(a), Shape(b)
  PROVE  TilesOverlap(a, b) <=> TilesOverlap(b, a)
BY DEF TilesOverlap

\* Moving two tiles by the same amount moves neither against the other.
LEMMA OverlapShifts ==
  ASSUME NEW a \in Tile, NEW b \in Tile, NEW x \in Int, NEW y \in Int
  PROVE  TilesOverlap(ShiftedBy(a, x, y), ShiftedBy(b, x, y)) <=> TilesOverlap(a, b)
BY DEF TilesOverlap, ShiftedBy, Ground, Footprint, SpanLow, Tile

\* Tiles of one square overlap only on the same square.
LEMMA SquaresApart ==
  ASSUME NEW a, NEW b, Shape(a), Shape(b),
         a.spanX = 1, a.spanY = 1, b.spanX = 1, b.spanY = 1, TilesOverlap(a, b)
  PROVE  a.dx = b.dx /\ a.dy = b.dy
BY DEF TilesOverlap, Ground, Footprint, SpanLow, Shape

\* The middle of two halves a whole number apart.
LEMMA RoundHalfShift ==
  ASSUME NEW m \in Int, NEW k \in Int
  PROVE  RoundHalf(2 * m + k) = m + RoundHalf(k)
BY DEF RoundHalf

LEMMA Product ==
  ASSUME NEW m \in Int, NEW n \in Int, NEW b \in Nat \ {0}, m < n
  PROVE  n * b >= m * b + b
<1>1. n * b = m * b + (n - m) * b
  BY Z3
<1>2. n - m >= 1 => (n - m) * b >= b
  BY Z3
<1> QED
  BY <1>1, <1>2

\* Two places of a generated shape are a whole base apart on one axis.
LEMMA PitchApart ==
  ASSUME NEW columns \in Nat, NEW rows \in Nat,
         NEW c \in Int, NEW r \in Int, NEW d \in Int, NEW s \in Int,
         TilesOverlap(PitchedTile(c, r, columns, rows), PitchedTile(d, s, columns, rows))
  PROVE  c = d /\ r = s
<1> DEFINE X(i) == RoundHalf((2 * i - (columns - 1)) * BaseSpan)
           Y(j) == RoundHalf(((rows - 1) - 2 * j) * BaseSpan)
           kx == 0 - (columns - 1) * BaseSpan
           ky == (rows - 1) * BaseSpan
<1>0. kx \in Int /\ ky \in Int /\ RoundHalf(kx) \in Int /\ RoundHalf(ky) \in Int
  BY DEF RoundHalf
<1>1. ASSUME NEW i \in Int PROVE X(i) = i * BaseSpan + RoundHalf(kx)
  <2>1. (2 * i - (columns - 1)) * BaseSpan = 2 * (i * BaseSpan) + kx
    BY Z3
  <2>2. i * BaseSpan \in Int
    OBVIOUS
  <2> HIDE DEF kx
  <2> QED
    BY <2>1, <2>2, <1>0, RoundHalfShift
<1>2. ASSUME NEW j \in Int PROVE Y(j) = (0 - j) * BaseSpan + RoundHalf(ky)
  <2>1. ((rows - 1) - 2 * j) * BaseSpan = 2 * ((0 - j) * BaseSpan) + ky
    BY Z3
  <2>2. (0 - j) * BaseSpan \in Int
    OBVIOUS
  <2> HIDE DEF ky
  <2> QED
    BY <2>1, <2>2, <1>0, RoundHalfShift
<1>3. /\ X(c) <= X(d) + BaseSpan - 1 /\ X(d) <= X(c) + BaseSpan - 1
      /\ Y(r) <= Y(s) + BaseSpan - 1 /\ Y(s) <= Y(r) + BaseSpan - 1
  <2>1. X(c) \in Int /\ X(d) \in Int /\ Y(r) \in Int /\ Y(s) \in Int
    BY DEF RoundHalf
  <2> QED
    BY <2>1 DEF TilesOverlap, PitchedTile, Ground, Footprint, SpanLow
<1> HIDE DEF X, Y, kx, ky
<1> DEFINE kX == RoundHalf(kx)
           kY == RoundHalf(ky)
<1>4. c = d
  <2>1. X(c) = c * BaseSpan + kX /\ X(d) = d * BaseSpan + kX /\ kX \in Int
    BY <1>0, <1>1
  <2>2. c * BaseSpan \in Int /\ d * BaseSpan \in Int
    OBVIOUS
  <2> HIDE DEF kX
  <2>3. ~ (c < d)
    <3> SUFFICES ASSUME c < d PROVE FALSE
      OBVIOUS
    <3>1. d * BaseSpan >= c * BaseSpan + BaseSpan
      BY Product
    <3> QED
      BY <3>1, <2>1, <2>2, <1>3
  <2>4. ~ (d < c)
    <3> SUFFICES ASSUME d < c PROVE FALSE
      OBVIOUS
    <3>1. c * BaseSpan >= d * BaseSpan + BaseSpan
      BY Product
    <3> QED
      BY <3>1, <2>1, <2>2, <1>3
  <2> QED
    BY <2>3, <2>4
<1>5. r = s
  <2>1. Y(r) = (0 - r) * BaseSpan + kY /\ Y(s) = (0 - s) * BaseSpan + kY /\ kY \in Int
    BY <1>0, <1>2
  <2>2. (0 - r) * BaseSpan \in Int /\ (0 - s) * BaseSpan \in Int
    OBVIOUS
  <2> HIDE DEF kY
  <2>3. ~ (r < s)
    <3> SUFFICES ASSUME r < s PROVE FALSE
      OBVIOUS
    <3>1. (0 - r) * BaseSpan >= (0 - s) * BaseSpan + BaseSpan
      BY Product
    <3> QED
      BY <3>1, <2>1, <2>2, <1>3
  <2>4. ~ (s < r)
    <3> SUFFICES ASSUME s < r PROVE FALSE
      OBVIOUS
    <3>1. (0 - s) * BaseSpan >= (0 - r) * BaseSpan + BaseSpan
      BY Product
    <3> QED
      BY <3>1, <2>1, <2>2, <1>3
  <2> QED
    BY <2>3, <2>4
<1> QED
  BY <1>4, <1>5

-----------------------------------------------------------------------------
(* Sets of tiles that stay apart.                                          *)

LEMMA ShapeOfTile ==
  ASSUME NEW t \in Tile
  PROVE  Shape(t)
BY DEF Tile, Shape

LEMMA TileOverlapSymmetric ==
  ASSUME NEW a \in Tile, NEW b \in Tile
  PROVE  TilesOverlap(a, b) <=> TilesOverlap(b, a)
BY ShapeOfTile, OverlapSymmetric

LEMMA ApartSubset ==
  ASSUME NEW T, NEW S, S \subseteq T, ApartFrom(T)
  PROVE  ApartFrom(S)
BY DEF ApartFrom

LEMMA ApartTogether ==
  ASSUME NEW S, NEW T, S \subseteq Tile, T \subseteq Tile, ApartFrom(S), ApartFrom(T),
         \A t \in T : CanPlace(S, t)
  PROVE  ApartFrom(S \cup T)
<1> SUFFICES ASSUME NEW a \in S \cup T, NEW b \in S \cup T, a # b
             PROVE  ~ TilesOverlap(a, b)
  BY DEF ApartFrom
<1>1. CASE a \in S /\ b \in S
  BY <1>1 DEF ApartFrom
<1>2. CASE a \in T /\ b \in T
  BY <1>2 DEF ApartFrom
<1>3. CASE a \in S /\ b \in T
  BY <1>3 DEF CanPlace
<1>4. CASE a \in T /\ b \in S
  <2>1. ~ TilesOverlap(b, a)
    BY <1>4 DEF CanPlace
  <2> QED
    BY <2>1, <1>4, TileOverlapSymmetric
<1> QED
  BY <1>1, <1>2, <1>3, <1>4

LEMMA ApartOne ==
  ASSUME NEW t
  PROVE  ApartFrom({t})
BY DEF ApartFrom

LEMMA ApartAndOne ==
  ASSUME NEW S, NEW t \in Tile, S \subseteq Tile, ApartFrom(S), CanPlace(S, t)
  PROVE  ApartFrom(S \cup {t})
BY ApartTogether, ApartOne

\* Tiles that take the ground of other tiles, one each, are apart as they are.
SameGround(t, u) == t.dx = u.dx /\ t.dy = u.dy /\ t.spanX = u.spanX /\ t.spanY = u.spanY

LEMMA OverlapOfGround ==
  ASSUME NEW a, NEW b, NEW c, NEW d, SameGround(a, c), SameGround(b, d)
  PROVE  TilesOverlap(a, b) <=> TilesOverlap(c, d)
BY DEF SameGround, TilesOverlap, Ground

LEMMA ApartSameGround ==
  ASSUME NEW S, NEW T, ApartFrom(S), \A t \in T : \E u \in S : SameGround(t, u),
         \A t, v \in T, u \in S : SameGround(t, u) /\ SameGround(v, u) => t = v
  PROVE  ApartFrom(T)
<1> SUFFICES ASSUME NEW a \in T, NEW b \in T, a # b PROVE ~ TilesOverlap(a, b)
  BY DEF ApartFrom
<1>1. PICK c \in S : SameGround(a, c)
  OBVIOUS
<1>2. PICK d \in S : SameGround(b, d)
  OBVIOUS
<1>3. c # d
  BY <1>1, <1>2
<1> QED
  BY <1>1, <1>2, <1>3, OverlapOfGround DEF ApartFrom

\* Two tiles of a set that is apart do not take the same ground.
LEMMA OverlapsItself ==
  ASSUME NEW t \in Tile, NEW u, SameGround(t, u)
  PROVE  TilesOverlap(t, u)
<1>1. TilesOverlap(t, t)
  BY DEF Tile, TilesOverlap, Ground, Footprint, SpanLow
<1> QED
  BY <1>1, OverlapOfGround DEF SameGround

LEMMA GroundIdentifies ==
  ASSUME NEW S, S \subseteq Tile, ApartFrom(S), NEW t \in S, NEW u \in S, SameGround(t, u)
  PROVE  t = u
BY OverlapsItself DEF ApartFrom

LEMMA CoversItsCoordinate ==
  ASSUME NEW middle \in Int, NEW span \in Nat \ {0}
  PROVE  SpanLow(middle, span) <= middle /\ middle <= SpanLow(middle, span) + span - 1
BY DEF SpanLow

LEMMA KeyIdentifies ==
  ASSUME NEW S, S \subseteq Tile, ApartFrom(S), NEW t \in S, NEW u \in S,
         OffsetKey(t) = OffsetKey(u)
  PROVE  t = u
<1>1. t.dx = u.dx /\ t.dy = u.dy /\ t \in Tile /\ u \in Tile
  BY DEF OffsetKey
<1>2. /\ t.dx \in Int /\ t.dy \in Int /\ u.dx \in Int /\ u.dy \in Int
      /\ t.spanX \in Nat \ {0} /\ t.spanY \in Nat \ {0}
      /\ u.spanX \in Nat \ {0} /\ u.spanY \in Nat \ {0}
  BY <1>1 DEF Tile
<1>3. /\ SpanLow(t.dx, t.spanX) <= u.dx /\ u.dx <= SpanLow(t.dx, t.spanX) + t.spanX - 1
      /\ SpanLow(u.dx, u.spanX) <= t.dx /\ t.dx <= SpanLow(u.dx, u.spanX) + u.spanX - 1
      /\ SpanLow(t.dy, t.spanY) <= u.dy /\ u.dy <= SpanLow(t.dy, t.spanY) + t.spanY - 1
      /\ SpanLow(u.dy, u.spanY) <= t.dy /\ t.dy <= SpanLow(u.dy, u.spanY) + u.spanY - 1
  BY <1>1, <1>2, CoversItsCoordinate
<1>4. /\ SpanLow(t.dx, t.spanX) \in Int /\ SpanLow(u.dx, u.spanX) \in Int
      /\ SpanLow(t.dy, t.spanY) \in Int /\ SpanLow(u.dy, u.spanY) \in Int
  BY <1>2 DEF SpanLow
<1>5. TilesOverlap(t, u)
  BY <1>1, <1>2, <1>3, <1>4 DEF TilesOverlap, Ground, Footprint
<1> QED
  BY <1>5 DEF ApartFrom

-----------------------------------------------------------------------------
(* The gestures.                                                           *)

\* The drawing is apart, over a board that is: what every gesture preserves.
DraftInv ==
  /\ draft \subseteq Tile /\ NoSharedGround
  /\ anchor \in Coordinate /\ pendingAnchor \in Coordinate \cup {NoAnchor}
  /\ slots \subseteq Row /\ ApartFrom(slots)

LEMMA AnchorTyped ==
  ASSUME DraftInv
  PROVE  AnchorShown \in Coordinate
BY DEF DraftInv, AnchorShown

LEMMA BoardDrawn ==
  ASSUME NEW rows, rows \subseteq Row, ApartFrom(rows)
  PROVE  DraftFromBoard(rows) \subseteq Tile /\ ApartFrom(DraftFromBoard(rows))
<1> DEFINE drawn(r) == [dx |-> r.dx, dy |-> r.dy, spanX |-> r.spanX, spanY |-> r.spanY,
                        kind |-> r.kind, colour |-> r.colour, slot |-> r.slot]
<1>2. DraftFromBoard(rows) \subseteq Tile
  BY DEF DraftFromBoard, Tile, Row
<1>3. DraftFromBoard(rows) = {drawn(r) : r \in rows}
  BY DEF DraftFromBoard
<1>4. \A r \in rows : SameGround(drawn(r), r)
  BY DEF SameGround
<1>5. ApartFrom(DraftFromBoard(rows))
  <2> SUFFICES ASSUME NEW a \in DraftFromBoard(rows), NEW b \in DraftFromBoard(rows), a # b
               PROVE  ~ TilesOverlap(a, b)
    BY DEF ApartFrom
  <2>1. PICK r \in rows : a = drawn(r)
    BY <1>3
  <2>2. PICK s \in rows : b = drawn(s)
    BY <1>3
  <2> HIDE DEF drawn
  <2>3. r # s
    BY <2>1, <2>2
  <2> QED
    BY <2>1, <2>2, <2>3, <1>4, OverlapOfGround DEF ApartFrom
<1> QED
  BY <1>2, <1>5

LEMMA LayoutApart ==
  ASSUME NEW S, S \subseteq Tile, ApartFrom(S)
  PROVE  Layout(S) \subseteq Tile /\ ApartFrom(Layout(S))
<1> DEFINE bare(t) == [t EXCEPT !.slot = NoSlot]
<1>1. Layout(S) \subseteq Tile
  BY DEF Layout, Tile
<1>2. Layout(S) = {bare(t) : t \in S}
  BY DEF Layout
<1>3. \A t \in S : SameGround(bare(t), t)
  BY DEF SameGround, Tile
<1>4. ApartFrom(Layout(S))
  <2> SUFFICES ASSUME NEW a \in Layout(S), NEW b \in Layout(S), a # b
               PROVE  ~ TilesOverlap(a, b)
    BY DEF ApartFrom
  <2>1. PICK r \in S : a = bare(r)
    BY <1>2
  <2>2. PICK s \in S : b = bare(s)
    BY <1>2
  <2> HIDE DEF bare
  <2>3. r # s
    BY <2>1, <2>2
  <2> QED
    BY <2>1, <2>2, <2>3, <1>3, OverlapOfGround DEF ApartFrom
<1> QED
  BY <1>1, <1>4

LEMMA InitDraft ==
  ASSUME Init
  PROVE  DraftInv
<1>1. slots \in Boards /\ draft = DraftFromBoard(slots) /\ anchor \in Anchors /\ pendingAnchor = NoAnchor
  BY DEF Init
<1>2. anchor \in Coordinate /\ slots \subseteq Row /\ ApartFrom(slots)
  BY <1>1, EditorAssumption
<1> QED
  BY <1>1, <1>2, BoardDrawn DEF DraftInv, NoSharedGround

\* Taking tiles out keeps the rest apart.
LEMMA LessDrawn ==
  ASSUME DraftInv, draft' \subseteq draft, UNCHANGED place
  PROVE  DraftInv'
BY ApartSubset DEF DraftInv, NoSharedGround, place

LEMMA PickDownDraft ==
  ASSUME DraftInv, NEW at \in Square, PickDown(at)
  PROVE  DraftInv'
<1>1. PICK brush \in Brushes :
        /\ CanPlace(draft, TileAt(at, brush, NoSlot))
        /\ draft' = draft \cup {TileAt(at, brush, NoSlot)}
  BY DEF PickDown
<1>2. UNCHANGED place
  BY DEF PickDown
<1>3. TileAt(at, brush, NoSlot) \in Tile
  <2>1. brush \in Brush /\ AnchorShown \in Coordinate /\ at \in Coordinate
    BY EditorAssumption, AnchorTyped DEF Square, Coordinate, Axis
  <2> QED
    BY <2>1 DEF TileAt, Tile, Brush, Coordinate
<1> QED
  BY <1>1, <1>2, <1>3, ApartAndOne DEF DraftInv, NoSharedGround, place

LEMMA SweepMarkDraft ==
  ASSUME DraftInv, NEW box, SweepMark(box)
  PROVE  DraftInv'
<1> DEFINE free == IF tool = "outline" THEN OutlineTilesIn(box, AnchorShown, draft)
                                       ELSE FreeTilesIn(box, AnchorShown, draft)
           marker(f, c) == [dx |-> f.dx, dy |-> f.dy, spanX |-> 1, spanY |-> 1,
                            kind |-> "structure", colour |-> c, slot |-> NoSlot]
<1>1. PICK c \in Colours : draft' = draft \cup {marker(f, c) : f \in free}
  BY DEF SweepMark
<1>2. UNCHANGED place
  BY DEF SweepMark
<1>3. \A f \in free : CanPlace(draft, f) /\ Shape(f) /\ f.spanX = 1 /\ f.spanY = 1
  BY AnchorTyped DEF OutlineTilesIn, FreeTilesIn, Shape, Axis, Coordinate
<1> HIDE DEF free
<1>4. {marker(f, c) : f \in free} \subseteq Tile
  BY <1>3 DEF Tile, Kinds, Shape
<1>5. \A f \in free : SameGround(marker(f, c), f)
  BY <1>3 DEF SameGround
<1>6. ASSUME NEW m \in {marker(f, c) : f \in free}
      PROVE  CanPlace(draft, m)
  <2>1. PICK f \in free : m = marker(f, c)
    BY <1>6
  <2>2. \A t \in draft : SameGround(t, t)
    BY DEF SameGround
  <2> HIDE DEF marker
  <2> QED
    BY <2>1, <2>2, <1>3, <1>5, OverlapOfGround DEF CanPlace
<1>7. ApartFrom({marker(f, c) : f \in free})
  <2> SUFFICES ASSUME NEW f \in free, NEW g \in free, TilesOverlap(marker(f, c), marker(g, c))
               PROVE  marker(f, c) = marker(g, c)
    BY DEF ApartFrom
  <2>1. Shape(marker(f, c)) /\ Shape(marker(g, c))
    BY <1>3 DEF Shape
  <2>2. f.dx = g.dx /\ f.dy = g.dy
    BY <2>1, SquaresApart
  <2> QED
    BY <2>2
<1> QED
  BY <1>1, <1>2, <1>4, <1>6, <1>7, ApartTogether DEF DraftInv, NoSharedGround, place

LEMMA TileMoved ==
  ASSUME NEW t \in Tile, NEW x \in Int, NEW y \in Int
  PROVE  [t EXCEPT !.dx = x, !.dy = y] \in Tile
<1> DEFINE east == [t EXCEPT !.dx = x]
<1>1. east \in Tile
  BY DEF Tile
<1>2. [t EXCEPT !.dx = x, !.dy = y] = [east EXCEPT !.dy = y]
  OBVIOUS
<1> HIDE DEF east
<1>3. [east EXCEPT !.dy = y] \in Tile
  BY <1>1 DEF Tile
<1> QED
  BY <1>2, <1>3

LEMMA MoveSelectionDraft ==
  ASSUME DraftInv, NEW byX \in Int, NEW byY \in Int, MoveSelection(byX, byY)
  PROVE  DraftInv'
<1> DEFINE landed == {ShiftedBy(t, byX, byY) : t \in Selected}
           rest == draft \ Selected
<1>1. draft' = rest \cup landed /\ UNCHANGED place
  BY DEF MoveSelection
<1>2. landed \subseteq Tile /\ rest \subseteq Tile /\ Selected \subseteq draft
  <2>1. Selected \subseteq draft /\ draft \subseteq Tile
    BY DEF DraftInv, Selected
  <2>2. ASSUME NEW t \in Selected PROVE ShiftedBy(t, byX, byY) \in Tile
    <3>1. t \in Tile /\ t.dx + byX \in Int /\ t.dy + byY \in Int
      BY <2>1 DEF Tile
    <3> QED
      BY <3>1, TileMoved DEF ShiftedBy
  <2> QED
    BY <2>1, <2>2
<1>3. ApartFrom(rest)
  BY ApartSubset DEF DraftInv, NoSharedGround
<1>4. ApartFrom(landed)
  <2> SUFFICES ASSUME NEW t \in Selected, NEW u \in Selected,
                      ShiftedBy(t, byX, byY) # ShiftedBy(u, byX, byY)
               PROVE  ~ TilesOverlap(ShiftedBy(t, byX, byY), ShiftedBy(u, byX, byY))
    BY DEF ApartFrom
  <2>1. t # u /\ t \in draft /\ u \in draft /\ t \in Tile /\ u \in Tile
    BY <1>2 DEF DraftInv
  <2>2. ~ TilesOverlap(t, u)
    BY <2>1 DEF DraftInv, NoSharedGround, ApartFrom
  <2> QED
    BY <2>1, <2>2, OverlapShifts
<1>5. \A m \in landed : CanPlace(rest, m)
  BY DEF MoveSelection, CanMoveGroup, Selected
<1> HIDE DEF landed, rest
<1> QED
  BY <1>1, <1>2, <1>3, <1>4, <1>5, ApartTogether DEF DraftInv, NoSharedGround, place

LEMMA MoveDraft ==
  ASSUME DraftInv, NEW held \in draft, NEW to \in Square, Move(held, to)
  PROVE  DraftInv'
<1> DEFINE landing == [held EXCEPT !.dx = to.x - AnchorShown.x, !.dy = to.y - AnchorShown.y]
<1>0. held \in Tile /\ AnchorShown \in Coordinate /\ to \in Coordinate
  BY AnchorTyped DEF DraftInv, Square, Coordinate, Axis
<1>1. landing \in Tile /\ landing.dx \in Int /\ landing.dy \in Int /\ held.dx \in Int /\ held.dy \in Int
  <2>1. to.x - AnchorShown.x \in Int /\ to.y - AnchorShown.y \in Int
    BY <1>0 DEF Coordinate
  <2>2. landing \in Tile
    BY <2>1, <1>0, TileMoved
  <2> HIDE DEF landing
  <2> QED
    BY <2>2, <1>0 DEF Tile
<1>2. CASE OffsetKey(held) \in selection
  <2>1. MoveSelection(landing.dx - held.dx, landing.dy - held.dy)
    BY <1>2 DEF Move
  <2> HIDE DEF landing
  <2> QED
    BY <2>1, <1>1, MoveSelectionDraft
<1>3. CASE OffsetKey(held) \notin selection
  <2> DEFINE rest == {t \in draft : OffsetKey(t) # OffsetKey(held)}
  <2>1. draft' = (draft \ {held}) \cup {landing} /\ CanPlace(rest, landing) /\ UNCHANGED place
    BY <1>3 DEF Move
  <2>2. draft \ {held} = rest
    BY KeyIdentifies DEF DraftInv, NoSharedGround
  <2>3. rest \subseteq Tile /\ ApartFrom(rest)
    BY ApartSubset DEF DraftInv, NoSharedGround
  <2> HIDE DEF landing, rest
  <2> QED
    BY <2>1, <2>2, <2>3, <1>1, ApartAndOne DEF DraftInv, NoSharedGround, place
<1> QED
  BY <1>2, <1>3

LEMMA PaintSelectionDraft ==
  ASSUME DraftInv, NEW c \in Colours, PaintSelection(c)
  PROVE  DraftInv'
<1> DEFINE painted(t) == [t EXCEPT !.colour = c]
           look(t) == IF t \in Selected THEN painted(t) ELSE t
<1>0. Selected \subseteq draft /\ draft \subseteq Tile
  BY DEF DraftInv, Selected
<1>1. draft' = (draft \ Selected) \cup {painted(t) : t \in Selected} /\ UNCHANGED place
  BY DEF PaintSelection
<1>2. \A t \in draft : look(t) \in Tile /\ SameGround(look(t), t)
  BY <1>0 DEF Tile, SameGround
<1> HIDE DEF painted
<1>3. draft' = {look(t) : t \in draft}
  BY <1>0, <1>1
<1> HIDE DEF look
<1>4. ApartFrom({look(t) : t \in draft})
  <2> SUFFICES ASSUME NEW t \in draft, NEW u \in draft, look(t) # look(u)
               PROVE  ~ TilesOverlap(look(t), look(u))
    BY DEF ApartFrom
  <2>1. t # u
    OBVIOUS
  <2> QED
    BY <2>1, <1>2, OverlapOfGround DEF DraftInv, NoSharedGround, ApartFrom
<1> QED
  BY <1>1, <1>2, <1>3, <1>4 DEF DraftInv, NoSharedGround, place

\* The offsets of a generated shape are places of its lattice.
LEMMA LatticeApart ==
  ASSUME NEW columns \in Nat, NEW rows \in Nat, NEW offsets,
         \A o \in offsets : \E c, r \in Int : o = PitchedTile(c, r, columns, rows)
  PROVE  /\ ApartFrom(offsets)
         /\ \A o \in offsets : /\ o.dx \in Int /\ o.dy \in Int
                               /\ o.spanX = BaseSpan /\ o.spanY = BaseSpan
<1>1. ASSUME NEW o \in offsets, NEW q \in offsets, TilesOverlap(o, q)
      PROVE  o = q
  <2>1. PICK c, r \in Int : o = PitchedTile(c, r, columns, rows)
    OBVIOUS
  <2>2. PICK d, s \in Int : q = PitchedTile(d, s, columns, rows)
    OBVIOUS
  <2>3. TilesOverlap(PitchedTile(c, r, columns, rows), PitchedTile(d, s, columns, rows))
    BY <1>1, <2>1, <2>2
  <2>4. \A i, j, k, l \in Int :
          TilesOverlap(PitchedTile(i, j, columns, rows), PitchedTile(k, l, columns, rows)) => i = k /\ j = l
    BY PitchApart
  <2>5. c = d /\ r = s
    BY <2>3, <2>4
  <2> QED
    BY <2>1, <2>2, <2>5
<1>2. ASSUME NEW o \in offsets
      PROVE  o.dx \in Int /\ o.dy \in Int /\ o.spanX = BaseSpan /\ o.spanY = BaseSpan
  <2>1. PICK c, r \in Int : o = PitchedTile(c, r, columns, rows)
    OBVIOUS
  <2> QED
    BY <2>1 DEF PitchedTile, RoundHalf
<1> QED
  BY <1>1, <1>2 DEF ApartFrom

LEMMA BlockOnLattice ==
  ASSUME NEW columns \in Nat, NEW rows \in Nat
  PROVE  \A o \in BlockOffsets(columns, rows) : \E c, r \in Int : o = PitchedTile(c, r, columns, rows)
BY DEF BlockOffsets

LEMMA RingOnLattice ==
  ASSUME NEW columns \in Nat, NEW rows \in Nat
  PROVE  \A o \in RingOffsets(columns, rows) : \E c, r \in Int : o = PitchedTile(c, r, columns, rows)
<1>1. CASE columns < 3 \/ rows < 3
  BY <1>1, BlockOnLattice DEF RingOffsets
<1>2. CASE ~ (columns < 3 \/ rows < 3)
  BY <1>2 DEF RingOffsets
<1> QED
  BY <1>1, <1>2

LEMMA FrankieTyped == Frankie \in Tile
<1>1. (CHOOSE c \in Colours : TRUE) \in Colours
  BY EditorAssumption
<1>2. FrankieX \in Nat \ {0} /\ FrankieY \in Nat \ {0}
  BY EditorAssumption
<1> QED
  BY <1>1, <1>2 DEF Frankie, Tile, Kinds

LEMMA GenerateDraft ==
  ASSUME DraftInv, NEW offsets, ApartFrom(offsets), Generate(offsets),
         \A o \in offsets : o.dx \in Int /\ o.dy \in Int /\ o.spanX = BaseSpan /\ o.spanY = BaseSpan
  PROVE  DraftInv'
<1> DEFINE usable == {o \in offsets : /\ FitsOnMap(AbsoluteOf(AnchorShown, o), o.spanX, o.spanY)
                                      /\ ~ TilesOverlap(Frankie, o)}
           base(o) == [dx |-> o.dx, dy |-> o.dy, spanX |-> o.spanX, spanY |-> o.spanY,
                       kind |-> "base", colour |-> Frankie.colour, slot |-> NoSlot]
           drawn == {base(o) : o \in usable}
<1>1. draft' = {Frankie} \cup drawn /\ UNCHANGED place
  BY DEF Generate
<1>2. \A o \in usable : base(o) \in Tile /\ SameGround(base(o), o)
  <2>1. Frankie.colour \in Colours
    BY FrankieTyped DEF Tile
  <2> QED
    BY <2>1 DEF Tile, Kinds, SameGround
<1>3. usable \subseteq offsets /\ \A o \in usable : ~ TilesOverlap(Frankie, o)
  OBVIOUS
<1> HIDE DEF base, usable
<1>4. ApartFrom(drawn)
  <2> SUFFICES ASSUME NEW t \in usable, NEW u \in usable, base(t) # base(u)
               PROVE  ~ TilesOverlap(base(t), base(u))
    BY DEF ApartFrom
  <2>1. t # u
    OBVIOUS
  <2> QED
    BY <2>1, <1>2, <1>3, OverlapOfGround DEF ApartFrom
<1>5. \A t \in drawn : CanPlace({Frankie}, t)
  <2>1. SameGround(Frankie, Frankie)
    BY DEF SameGround
  <2> QED
    BY <2>1, <1>2, <1>3, OverlapOfGround DEF CanPlace
<1>6. drawn \subseteq Tile /\ {Frankie} \subseteq Tile /\ ApartFrom({Frankie})
  BY <1>2, FrankieTyped, ApartOne
<1> HIDE DEF drawn
<1>7. ApartFrom({Frankie} \cup drawn)
  BY <1>4, <1>5, <1>6, ApartTogether
<1> QED
  BY <1>1, <1>6, <1>7 DEF DraftInv, NoSharedGround, place

LEMMA DropMemberDraft ==
  ASSUME DraftInv, NEW player, NEW at \in Square, DropMember(player, at)
  PROVE  DraftInv'
<1>0. UNCHANGED place
  BY DEF DropMember
<1>1. CASE draft' = draft
  BY <1>0, <1>1 DEF DraftInv, NoSharedGround, place
<1>2. ASSUME NEW t \in draft, NEW id \in SlotIds,
             draft' = (draft \ {t}) \cup {[t EXCEPT !.slot = id]}
      PROVE  DraftInv'
  <2> DEFINE named == [t EXCEPT !.slot = id]
  <2>1. t \in Tile /\ named \in Tile /\ SameGround(named, t)
    BY DEF DraftInv, Tile, SameGround
  <2>2. draft \ {t} \subseteq Tile /\ ApartFrom(draft \ {t})
    BY ApartSubset DEF DraftInv, NoSharedGround
  <2> HIDE DEF named
  <2>3. CanPlace(draft \ {t}, named)
    <3> SUFFICES ASSUME NEW u \in draft \ {t} PROVE ~ TilesOverlap(u, named)
      BY DEF CanPlace
    <3>1. ~ TilesOverlap(u, t) /\ SameGround(u, u)
      BY DEF DraftInv, NoSharedGround, ApartFrom, SameGround
    <3> QED
      BY <3>1, <2>1, OverlapOfGround
  <2>4. draft' = (draft \ {t}) \cup {named}
    BY <1>2 DEF named
  <2> QED
    BY <2>1, <2>2, <2>3, <2>4, <1>0, ApartAndOne DEF DraftInv, NoSharedGround, place
<1>3. ASSUME NEW id \in SlotIds, NEW c \in Colours,
             LET tile == TileAt(at, [spanX |-> BaseSpan, spanY |-> BaseSpan,
                                     kind |-> "base", colour |-> c], id)
             IN CanPlace(draft, tile) /\ draft' = draft \cup {tile}
      PROVE  DraftInv'
  <2> DEFINE tile == TileAt(at, [spanX |-> BaseSpan, spanY |-> BaseSpan,
                                 kind |-> "base", colour |-> c], id)
  <2>1. tile \in Tile
    <3>1. AnchorShown \in Coordinate /\ at \in Coordinate
      BY AnchorTyped DEF Square, Coordinate, Axis
    <3> QED
      BY <3>1 DEF TileAt, Tile, Kinds, Coordinate
  <2> HIDE DEF tile
  <2>2. CanPlace(draft, tile) /\ draft' = draft \cup {tile}
    BY <1>3 DEF tile
  <2> QED
    BY <2>1, <2>2, <1>0, ApartAndOne DEF DraftInv, NoSharedGround, place
<1>4. GroundUnder(at) \subseteq draft /\ SlotIds \ HeldSlots \subseteq SlotIds
  BY DEF GroundUnder
<1> QED
  BY <1>1, <1>2, <1>3, <1>4 DEF DropMember

LEMMA OtherwiseDraft ==
  ASSUME DraftInv, UNCHANGED draft, UNCHANGED slots,
         anchor' \in Coordinate, pendingAnchor' \in Coordinate \cup {NoAnchor}
  PROVE  DraftInv'
BY DEF DraftInv, NoSharedGround

LEMMA BoardArrivesDraft ==
  ASSUME DraftInv, NEW rows, rows \subseteq Row, ApartFrom(rows), NEW at \in Coordinate,
         BoardArrives(rows, at)
  PROVE  DraftInv'
<1>1. slots' = rows /\ anchor' = at /\ pendingAnchor' = pendingAnchor
  BY DEF BoardArrives
<1>2. draft' = draft \/ draft' = DraftFromBoard(rows)
  BY DEF BoardArrives
<1> QED
  BY <1>1, <1>2, BoardDrawn DEF DraftInv, NoSharedGround

LEMMA RefetchDraft ==
  ASSUME DraftInv, Refetched
  PROVE  DraftInv'
<1>1. PICK rows \in Boards, at \in Anchors : BoardArrives(rows, at)
  BY DEF Refetched
<1>2. at \in Coordinate /\ rows \subseteq Row /\ ApartFrom(rows)
  BY EditorAssumption
<1> QED
  BY <1>1, <1>2, BoardArrivesDraft

LEMMA OnTheMapDraft ==
  ASSUME DraftInv, OnTheMap
  PROVE  DraftInv'
<1>1. ASSUME NEW at \in Square, PickUp(at) PROVE DraftInv'
  BY <1>1, LessDrawn DEF PickUp
<1>2. ASSUME NEW at \in Square, PickDown(at) PROVE DraftInv'
  BY <1>2, PickDownDraft
<1>3. ASSUME NEW box, SweepSelect(box) PROVE DraftInv'
  BY <1>3, LessDrawn DEF SweepSelect
<1>4. ASSUME NEW box, SweepErase(box) PROVE DraftInv'
  <2>1. draft' \subseteq draft /\ UNCHANGED place
    BY <1>4 DEF SweepErase
  <2> QED
    BY <2>1, LessDrawn
<1>5. ASSUME NEW box, SweepMark(box) PROVE DraftInv'
  BY <1>5, SweepMarkDraft
<1>6. ASSUME NEW held \in draft, NEW to \in Square, Move(held, to) PROVE DraftInv'
  BY <1>6, MoveDraft
<1>7. ASSUME NEW player \in Players, NEW at \in Square, DropMember(player, at) PROVE DraftInv'
  BY <1>7, DropMemberDraft
<1> QED
  BY <1>1, <1>2, <1>3, <1>4, <1>5, <1>6, <1>7 DEF OnTheMap

LEMMA BesideTheMapDraft ==
  ASSUME DraftInv, BesideTheMap
  PROVE  DraftInv'
<1>1. ASSUME NEW chosen \in Tools, SetTool(chosen) PROVE DraftInv'
  BY <1>1, LessDrawn DEF SetTool
<1>2. ASSUME NEW nudge \in Nudges, MoveSelection(nudge[1], nudge[2]) PROVE DraftInv'
  <2>1. nudge[1] \in Int /\ nudge[2] \in Int
    BY DEF Nudges
  <2> QED
    BY <2>1, <1>2, MoveSelectionDraft
<1>3. CASE Deselect
  BY <1>3, LessDrawn DEF Deselect
<1>4. CASE DeleteSelection
  BY <1>4, LessDrawn DEF DeleteSelection
<1>5. ASSUME NEW c \in Colours, PaintSelection(c) PROVE DraftInv'
  BY <1>5, PaintSelectionDraft
<1>6. ASSUME NEW side \in BlockSides, GenerateBlock(side) PROVE DraftInv'
  <2>1. side \in Nat
    BY EditorAssumption
  <2>2. Generate(BlockOffsets(side, side))
    BY <1>6 DEF GenerateBlock
  <2>3. \A o \in BlockOffsets(side, side) : \E c, r \in Int : o = PitchedTile(c, r, side, side)
    BY <2>1, BlockOnLattice
  <2> DEFINE offsets == BlockOffsets(side, side)
  <2> HIDE DEF offsets
  <2>4. /\ ApartFrom(offsets)
        /\ \A o \in offsets : /\ o.dx \in Int /\ o.dy \in Int
                              /\ o.spanX = BaseSpan /\ o.spanY = BaseSpan
    BY <2>1, <2>3, LatticeApart DEF offsets
  <2> QED
    BY <2>2, <2>4, GenerateDraft DEF offsets
<1>7. ASSUME NEW side \in RingSides, GenerateRing(side) PROVE DraftInv'
  <2>1. side \in Nat
    BY EditorAssumption
  <2>2. Generate(RingOffsets(side, side))
    BY <1>7 DEF GenerateRing
  <2>3. \A o \in RingOffsets(side, side) : \E c, r \in Int : o = PitchedTile(c, r, side, side)
    BY <2>1, RingOnLattice
  <2> DEFINE offsets == RingOffsets(side, side)
  <2> HIDE DEF offsets
  <2>4. /\ ApartFrom(offsets)
        /\ \A o \in offsets : /\ o.dx \in Int /\ o.dy \in Int
                              /\ o.spanX = BaseSpan /\ o.spanY = BaseSpan
    BY <2>1, <2>3, LatticeApart DEF offsets
  <2> QED
    BY <2>2, <2>4, GenerateDraft DEF offsets
<1>8. ASSUME NEW shape \in Shapes, TemplateLoad(shape) PROVE DraftInv'
  <2>1. shape \subseteq Tile /\ ApartFrom(shape)
    BY EditorAssumption
  <2>2. draft' = Layout(shape) /\ UNCHANGED place
    BY <1>8 DEF TemplateLoad, DraftFromTiles
  <2> QED
    BY <2>1, <2>2, LayoutApart DEF DraftInv, NoSharedGround, place
<1>9. CASE Discard
  <2>1. draft' = DraftFromBoard(slots) /\ UNCHANGED place
    BY <1>9 DEF Discard, Saved
  <2> QED
    BY <2>1, BoardDrawn DEF DraftInv, NoSharedGround, place
<1>10. CASE Clear
  BY <1>10, LessDrawn DEF Clear
<1>11. ASSUME NEW to \in Anchors, MoveAnchor(to) PROVE DraftInv'
  <2>1. to \in Coordinate
    BY EditorAssumption
  <2> QED
    BY <2>1, <1>11, OtherwiseDraft DEF MoveAnchor, DraftInv
<1>12. CASE AnchorMoved
  BY <1>12, OtherwiseDraft DEF AnchorMoved, DraftInv
<1>13. CASE AnchorRefused
  BY <1>13, OtherwiseDraft DEF AnchorRefused, DraftInv
<1> QED
  BY <1>1, <1>2, <1>3, <1>4, <1>5, <1>6, <1>7, <1>8, <1>9, <1>10, <1>11, <1>12, <1>13 DEF BesideTheMap

LEMMA InTheTableDraft ==
  ASSUME DraftInv, InTheTable
  PROVE  DraftInv'
<1>1. UNCHANGED draft /\ UNCHANGED place
  BY DEF InTheTable, ChooseFor, Vacate, TogglePin, EmptyEveryTile, UnpinEverything, Fill, PinWhere
<1> QED
  BY <1>1, OtherwiseDraft DEF place, DraftInv

LEMMA NextDraft ==
  ASSUME DraftInv, [Next]_editorVars
  PROVE  DraftInv'
<1>1. CASE UNCHANGED editorVars
  BY <1>1, OtherwiseDraft DEF editorVars, DraftInv
<1>2. CASE RosterArrives
  BY <1>2, OtherwiseDraft DEF RosterArrives, DraftInv
<1> QED
  BY <1>1, <1>2, OnTheMapDraft, BesideTheMapDraft, InTheTableDraft, RefetchDraft DEF Next

\* The drawing is apart in every state the editor reaches, whatever the size
\* of a base, of the map and of the brushes.
THEOREM DrawnApart == Spec => []NoSharedGround
<1>1. Init => DraftInv
  BY InitDraft
<1>2. DraftInv /\ [Next]_editorVars => DraftInv'
  BY NextDraft
<1>3. DraftInv => NoSharedGround
  BY DEF DraftInv
<1> QED
  BY <1>1, <1>2, <1>3, PTL DEF Spec

-----------------------------------------------------------------------------
(* One tile per saved place, one place per member: the drawing.            *)

\* What is left of the types once the drawing's are known.
PlanTyped ==
  /\ selection \subseteq Int \X Int /\ tool \in Tools
  /\ assignments \in [SlotIds -> Players \cup {NoOne}]
  /\ pinned \in [SlotIds -> Players \cup {NoOne}]
  /\ members \subseteq Players

\* A slot leads to one tile, a member to one slot, over a board that keeps its
\* own rows apart.
PlacesInv ==
  /\ DraftInv /\ PlanTyped
  /\ OneTilePerSlot /\ OneTilePerMember
  /\ OwnPlaces(slots) /\ IsFiniteSet(slots)

LEMMA KeysTyped ==
  ASSUME NEW S, S \subseteq Tile
  PROVE  Keys(S) \subseteq Int \X Int
BY DEF Keys, OffsetKey, Tile

\* A gesture that draws: nobody is put anywhere, and no place is opened.
LEMMA DrawingPlaces ==
  ASSUME PlacesInv, DraftInv', UNCHANGED <<people, place>>,
         selection' \subseteq Int \X Int, tool' \in Tools,
         OneTilePerSlot', DrawnSlots' \subseteq LiveSlots
  PROVE  PlacesInv'
<1>1. PlanTyped' /\ OwnPlaces(slots)' /\ IsFiniteSet(slots)'
  BY DEF PlacesInv, PlanTyped, people, place, OwnPlaces
<1>2. LiveSlots' \subseteq LiveSlots
  BY DEF LiveSlots, place
<1>3. OneTilePerMember'
  BY <1>2 DEF PlacesInv, OneTilePerMember, people
<1> QED
  BY <1>1, <1>3 DEF PlacesInv

\* What is taken out or added without a slot leads nowhere new.
LEMMA LessOrUnsaved ==
  ASSUME OneTilePerSlot, \A t \in draft' : t \in draft \/ t.slot = NoSlot
  PROVE  OneTilePerSlot' /\ DrawnSlots' \subseteq LiveSlots
<1>1. OneTilePerSlot'
  BY DEF OneTilePerSlot
<1>2. DrawnSlots' \subseteq LiveSlots
  BY DEF DrawnSlots, LiveSlots
<1> QED
  BY <1>1, <1>2

\* Each tile is drawn otherwise and keeps its slot.
SlotsFollow(from, to) ==
  \E look \in [from -> to] : /\ to = {look[t] : t \in from}
                             /\ \A t \in from : look[t].slot = t.slot

LEMMA RedrawnSlots ==
  ASSUME OneTilePerSlot, SlotsFollow(draft, draft')
  PROVE  OneTilePerSlot' /\ DrawnSlots' = DrawnSlots /\ DrawnSlots' \subseteq LiveSlots
<1>1. PICK look \in [draft -> draft'] : /\ draft' = {look[t] : t \in draft}
                                       /\ \A t \in draft : look[t].slot = t.slot
  BY DEF SlotsFollow
<1>2. OneTilePerSlot'
  <2> SUFFICES ASSUME NEW a \in draft', NEW b \in draft', a.slot = b.slot, a.slot # NoSlot
               PROVE  a = b
    BY DEF OneTilePerSlot
  <2>1. PICK s \in draft : a = look[s]
    BY <1>1
  <2>2. PICK t \in draft : b = look[t]
    BY <1>1
  <2>3. s = t
    BY <1>1, <2>1, <2>2 DEF OneTilePerSlot
  <2> QED
    BY <2>1, <2>2, <2>3
<1>3. {t.slot : t \in draft'} = {t.slot : t \in draft}
  <2>1. \A t \in draft : look[t] \in draft' /\ look[t].slot = t.slot
    BY <1>1
  <2>2. \A u \in draft' : \E t \in draft : u.slot = t.slot
    BY <1>1
  <2> QED
    BY <2>1, <2>2
<1>4. DrawnSlots' = DrawnSlots
  BY <1>3 DEF DrawnSlots
<1> QED
  BY <1>2, <1>4 DEF LiveSlots

LEMMA MoveSelectionSlots ==
  ASSUME DraftInv, NEW byX \in Int, NEW byY \in Int, MoveSelection(byX, byY)
  PROVE  SlotsFollow(draft, draft')
<1> DEFINE look == [t \in draft |-> IF t \in Selected THEN ShiftedBy(t, byX, byY) ELSE t]
<1>0. Selected \subseteq draft /\ draft \subseteq Tile
  BY DEF Selected, DraftInv
<1>1. draft' = (draft \ Selected) \cup {ShiftedBy(t, byX, byY) : t \in Selected}
  BY DEF MoveSelection
<1>2. draft' = {look[t] : t \in draft}
  BY <1>0, <1>1
<1>3. \A t \in draft : look[t].slot = t.slot
  BY <1>0 DEF ShiftedBy, Tile
<1>4. look \in [draft -> draft']
  BY <1>2
<1> QED
  BY <1>2, <1>3, <1>4 DEF SlotsFollow

LEMMA PaintSlots ==
  ASSUME DraftInv, NEW c \in Colours, PaintSelection(c)
  PROVE  SlotsFollow(draft, draft')
<1> DEFINE look == [t \in draft |-> IF t \in Selected THEN [t EXCEPT !.colour = c] ELSE t]
<1>0. Selected \subseteq draft /\ draft \subseteq Tile
  BY DEF Selected, DraftInv
<1>1. draft' = (draft \ Selected) \cup {[t EXCEPT !.colour = c] : t \in Selected}
  BY DEF PaintSelection
<1>2. draft' = {look[t] : t \in draft}
  BY <1>0, <1>1
<1>3. \A t \in draft : look[t].slot = t.slot
  BY <1>0 DEF Tile
<1>4. look \in [draft -> draft']
  BY <1>2
<1> QED
  BY <1>2, <1>3, <1>4 DEF SlotsFollow

LEMMA MoveSlots ==
  ASSUME DraftInv, NEW held \in draft, NEW to \in Square, Move(held, to)
  PROVE  SlotsFollow(draft, draft')
<1> DEFINE landing == [held EXCEPT !.dx = to.x - AnchorShown.x, !.dy = to.y - AnchorShown.y]
<1>0. held \in Tile /\ AnchorShown \in Coordinate /\ to \in Coordinate
  BY AnchorTyped DEF DraftInv, Square, Coordinate, Axis
<1>1. CASE OffsetKey(held) \in selection
  <2>1. MoveSelection(landing.dx - held.dx, landing.dy - held.dy)
    BY <1>1 DEF Move
  <2>2. landing.dx - held.dx \in Int /\ landing.dy - held.dy \in Int
    BY <1>0 DEF Tile, Coordinate
  <2> HIDE DEF landing
  <2> QED
    BY <2>1, <2>2, MoveSelectionSlots
<1>2. CASE OffsetKey(held) \notin selection
  <2> DEFINE look == [t \in draft |-> IF t = held THEN landing ELSE t]
  <2>1. draft' = (draft \ {held}) \cup {landing}
    BY <1>2 DEF Move
  <2>2. landing.slot = held.slot
    BY <1>0 DEF Tile
  <2> HIDE DEF landing
  <2>3. draft' = {look[t] : t \in draft}
    BY <2>1
  <2>4. \A t \in draft : look[t].slot = t.slot
    BY <2>2
  <2>5. look \in [draft -> draft']
    BY <2>3
  <2> QED
    BY <2>3, <2>4, <2>5 DEF SlotsFollow
<1> QED
  BY <1>1, <1>2

\* What the drop of a member writes down of who stands where.
SeatedAs(player, id) ==
  /\ assignments' = [s \in SlotIds |->
       IF s = id THEN player
       ELSE IF assignments[s] # player /\ s \in LiveSlots THEN assignments[s] ELSE NoOne]
  /\ pinned' = [s \in SlotIds |->
       IF s = id THEN player ELSE IF pinned[s] # player THEN pinned[s] ELSE NoOne]

LEMMA SeatPlaces ==
  ASSUME PlacesInv, DraftInv', NEW player \in Players, NEW id \in SlotIds, SeatedAs(player, id),
         OneTilePerSlot', DrawnSlots' \subseteq DrawnSlots \cup {id},
         UNCHANGED <<selection, tool, place>>
  PROVE  PlacesInv'
<1>0. /\ assignments \in [SlotIds -> Players \cup {NoOne}]
      /\ pinned \in [SlotIds -> Players \cup {NoOne}]
  BY DEF PlacesInv, PlanTyped
<1>1. /\ assignments' \in [SlotIds -> Players \cup {NoOne}]
      /\ pinned' \in [SlotIds -> Players \cup {NoOne}]
  BY <1>0 DEF SeatedAs
<1>2. PlanTyped' /\ OwnPlaces(slots)' /\ IsFiniteSet(slots)'
  BY <1>1 DEF PlacesInv, PlanTyped, place, OwnPlaces
<1>3. LiveSlots' \subseteq LiveSlots \cup {id}
  BY DEF LiveSlots, place
<1>4. LiveSlots \subseteq SlotIds
  BY DEF LiveSlots, DrawnSlots, PlacesInv, DraftInv, Tile, Row
<1>5. OneTilePerMember'
  <2> SUFFICES ASSUME NEW s \in LiveSlots', NEW t \in LiveSlots',
                      assignments'[s] = assignments'[t], assignments'[s] # NoOne
               PROVE  s = t
    BY DEF OneTilePerMember
  <2>1. s \in SlotIds /\ t \in SlotIds
    BY <1>3, <1>4
  <2>2. \A u \in SlotIds : assignments'[u] =
          IF u = id THEN player
          ELSE IF assignments[u] # player /\ u \in LiveSlots THEN assignments[u] ELSE NoOne
    BY DEF SeatedAs
  <2>3. CASE s # id /\ t # id
    <3>1. assignments'[s] = assignments[s] /\ assignments'[t] = assignments[t]
          /\ s \in LiveSlots /\ t \in LiveSlots
      BY <2>1, <2>2, <2>3
    <3> QED
      BY <3>1 DEF PlacesInv, OneTilePerMember
  <2> QED
    BY <2>1, <2>2, <2>3
<1> QED
  BY <1>2, <1>5 DEF PlacesInv

LEMMA DropMemberPlaces ==
  ASSUME PlacesInv, NEW player \in Players, NEW at \in Square, DropMember(player, at)
  PROVE  PlacesInv'
<1>0. UNCHANGED <<selection, tool, place>> /\ DraftInv' /\ draft \subseteq Tile /\ OneTilePerSlot
  <2>1. DraftInv /\ OneTilePerSlot
    BY DEF PlacesInv
  <2>2. DraftInv'
    BY <2>1, DropMemberDraft
  <2> QED
    BY <2>1, <2>2 DEF DropMember, DraftInv
<1>1. ASSUME NEW t \in draft, t.slot # NoSlot, SeatedAs(player, t.slot), draft' = draft
      PROVE  PlacesInv'
  <2>1. t.slot \in SlotIds /\ DrawnSlots' = DrawnSlots /\ OneTilePerSlot'
    BY <1>0, <1>1 DEF Tile, DrawnSlots, OneTilePerSlot
  <2> QED
    BY <2>1, <1>0, <1>1, SeatPlaces
<1>2. ASSUME NEW t \in draft, NEW id \in SlotIds \ HeldSlots, SeatedAs(player, id),
             draft' = (draft \ {t}) \cup {[t EXCEPT !.slot = id]}
      PROVE  PlacesInv'
  <2> DEFINE named == [t EXCEPT !.slot = id]
  <2>1. named.slot = id /\ draft' = (draft \ {t}) \cup {named}
    BY <1>0, <1>2 DEF Tile
  <2> HIDE DEF named
  <2>2. \A u \in draft : u.slot # id
    BY EditorAssumption DEF HeldSlots, LiveSlots, DrawnSlots
  <2>3. OneTilePerSlot'
    BY <2>1, <2>2, <1>0 DEF OneTilePerSlot
  <2>4. DrawnSlots' \subseteq DrawnSlots \cup {id}
    BY <2>1 DEF DrawnSlots
  <2> QED
    BY <2>3, <2>4, <1>0, <1>2, SeatPlaces
<1>3. ASSUME NEW tile, NEW id \in SlotIds \ HeldSlots, SeatedAs(player, id),
             tile.slot = id, draft' = draft \cup {tile}
      PROVE  PlacesInv'
  <2>2. \A u \in draft : u.slot # id
    BY EditorAssumption DEF HeldSlots, LiveSlots, DrawnSlots
  <2>3. OneTilePerSlot'
    BY <1>3, <2>2, <1>0 DEF OneTilePerSlot
  <2>4. DrawnSlots' \subseteq DrawnSlots \cup {id}
    BY <1>3 DEF DrawnSlots
  <2> QED
    BY <2>3, <2>4, <1>0, <1>3, SeatPlaces
<1>4. GroundUnder(at) \subseteq draft
  BY DEF GroundUnder
<1>5. \/ \E t \in draft : t.slot # NoSlot /\ SeatedAs(player, t.slot) /\ draft' = draft
      \/ \E t \in draft, id \in SlotIds \ HeldSlots :
           SeatedAs(player, id) /\ draft' = (draft \ {t}) \cup {[t EXCEPT !.slot = id]}
      \/ \E id \in SlotIds \ HeldSlots, colour \in Colours :
           /\ SeatedAs(player, id)
           /\ draft' = draft \cup {TileAt(at, [spanX |-> BaseSpan, spanY |-> BaseSpan,
                                               kind |-> "base", colour |-> colour], id)}
  BY <1>4 DEF DropMember, SeatedAs
<1>6. \A brush, id : TileAt(at, brush, id).slot = id
  BY DEF TileAt
<1> QED
  BY <1>1, <1>2, <1>3, <1>5, <1>6

-----------------------------------------------------------------------------
(* The same, when the board is read.                                       *)

LEMMA BoardSlots ==
  ASSUME NEW rows, rows \subseteq Row, OwnPlaces(rows)
  PROVE  /\ \A a, b \in DraftFromBoard(rows) : a.slot = b.slot => a = b
         /\ \A a \in DraftFromBoard(rows) : \E r \in rows : a.slot = r.slot
<1> DEFINE drawn(r) == [dx |-> r.dx, dy |-> r.dy, spanX |-> r.spanX, spanY |-> r.spanY,
                        kind |-> r.kind, colour |-> r.colour, slot |-> r.slot]
<1>1. DraftFromBoard(rows) = {drawn(r) : r \in rows} /\ \A r \in rows : drawn(r).slot = r.slot
  BY DEF DraftFromBoard
<1> HIDE DEF drawn
<1> QED
  BY <1>1 DEF OwnPlaces

\* A board sends each member to one slot.
LEMMA OccupantsApart ==
  ASSUME NEW rows, rows \subseteq Row, OwnPlaces(rows)
  PROVE  /\ OccupantsOf(rows) \in [SlotIds -> Players \cup {NoOne}]
         /\ PinsOf(rows) \in [SlotIds -> Players \cup {NoOne}]
         /\ \A r \in rows : OccupantsOf(rows)[r.slot] = r.player
         /\ \A s, t \in SlotIds : /\ OccupantsOf(rows)[s] = OccupantsOf(rows)[t]
                                  /\ OccupantsOf(rows)[s] # NoOne
                                  => s = t
<1>1. ASSUME NEW r \in rows PROVE (CHOOSE q \in rows : q.slot = r.slot) = r
  <2>1. (CHOOSE q \in rows : q.slot = r.slot) \in rows /\ (CHOOSE q \in rows : q.slot = r.slot).slot = r.slot
    OBVIOUS
  <2> QED
    BY <2>1 DEF OwnPlaces
<1>2. \A r \in rows : r.slot \in SlotIds /\ r.player \in Players \cup {NoOne}
  BY DEF Row
<1>3. \A r \in rows : OccupantsOf(rows)[r.slot] = r.player
  BY <1>1, <1>2 DEF OccupantsOf
<1>4. \A s \in SlotIds : \/ OccupantsOf(rows)[s] = NoOne
                         \/ \E r \in rows : r.slot = s /\ OccupantsOf(rows)[s] = r.player
  <2> SUFFICES ASSUME NEW s \in SlotIds, OccupantsOf(rows)[s] # NoOne
               PROVE  \E r \in rows : r.slot = s /\ OccupantsOf(rows)[s] = r.player
    OBVIOUS
  <2>1. \E r \in rows : r.slot = s
    BY DEF OccupantsOf
  <2> QED
    BY <2>1, <1>3
<1>5. \A s \in SlotIds : OccupantsOf(rows)[s] \in Players \cup {NoOne}
  BY <1>2, <1>4
<1>6. OccupantsOf(rows) \in [SlotIds -> Players \cup {NoOne}]
  <2>1. OccupantsOf(rows) = [id \in SlotIds |-> OccupantsOf(rows)[id]]
    BY DEF OccupantsOf
  <2> QED
    BY <2>1, <1>5
<1>7. PinsOf(rows) \in [SlotIds -> Players \cup {NoOne}]
  BY <1>5 DEF PinsOf
<1>8. \A s, t \in SlotIds : /\ OccupantsOf(rows)[s] = OccupantsOf(rows)[t]
                            /\ OccupantsOf(rows)[s] # NoOne
                            => s = t
  BY <1>4 DEF OwnPlaces
<1> QED
  BY <1>3, <1>6, <1>7, <1>8

LEMMA BoardArrivesPlaces ==
  ASSUME PlacesInv, NEW rows, rows \subseteq Row, ApartFrom(rows), OwnPlaces(rows), IsFiniteSet(rows),
         NEW at \in Coordinate, BoardArrives(rows, at)
  PROVE  PlacesInv'
<1>1. DraftInv' /\ slots' = rows /\ OwnPlaces(slots)' /\ IsFiniteSet(slots)'
      /\ UNCHANGED <<selection, tool, members>>
  BY BoardArrivesDraft DEF BoardArrives, PlacesInv
<1>2. draft' = draft \/ draft' = DraftFromBoard(rows)
  BY DEF BoardArrives
<1>3. OneTilePerSlot'
  BY <1>2, BoardSlots DEF OneTilePerSlot, PlacesInv
<1>4. LiveSlots' \subseteq SlotIds /\ LiveSlots' \subseteq LiveSlots \cup {r.slot : r \in rows}
  <2>1. DrawnSlots' \subseteq DrawnSlots \cup {r.slot : r \in rows}
    BY <1>2, BoardSlots DEF DrawnSlots
  <2>2. LiveSlots' \subseteq SlotIds
    BY <1>1 DEF LiveSlots, DrawnSlots, DraftInv, Tile, Row
  <2> QED
    BY <2>1, <2>2, <1>1 DEF LiveSlots
<1>5. CASE SameOccupancy(slots, rows)
  <2>1. UNCHANGED people
    BY <1>5 DEF BoardArrives
  <2>2. ASSUME NEW r \in rows PROVE \E q \in slots : q.slot = r.slot
    <3>1. [slot |-> r.slot, player |-> r.player, pinned |-> r.pinned]
            \in {[slot |-> q.slot, player |-> q.player, pinned |-> q.pinned] : q \in slots}
      BY <1>5 DEF SameOccupancy
    <3> QED
      BY <3>1
  <2>3. LiveSlots' \subseteq LiveSlots
    BY <1>4, <2>2 DEF LiveSlots
  <2>4. OneTilePerMember' /\ PlanTyped'
    BY <2>1, <2>3, <1>1 DEF OneTilePerMember, PlanTyped, PlacesInv, people
  <2> QED
    BY <2>4, <1>1, <1>3 DEF PlacesInv
<1>6. CASE ~ SameOccupancy(slots, rows)
  <2>1. /\ assignments' = OccupantsOf(rows)
        /\ pinned' = [id \in SlotIds |-> IF PinsOf(rows)[id] # NoOne
                                         THEN PinsOf(rows)[id] ELSE SurvivingPins(pinned, rows)[id]]
    BY <1>6 DEF BoardArrives
  <2>2. SurvivingPins(pinned, rows) \in [SlotIds -> Players \cup {NoOne}]
    BY DEF SurvivingPins, PlacesInv, PlanTyped
  <2>3. PlanTyped'
    BY <2>1, <2>2, <1>1, OccupantsApart DEF PlanTyped, PlacesInv
  <2>4. OneTilePerMember'
    BY <2>1, <1>4, OccupantsApart DEF OneTilePerMember
  <2> QED
    BY <2>3, <2>4, <1>1, <1>3 DEF PlacesInv
<1> QED
  BY <1>5, <1>6

-----------------------------------------------------------------------------
(* The same, for everything done on the map and beside it.                 *)

\* Drawing that leaves the tools alone and puts down nothing with a slot.
LEMMA LessOrUnsavedPlaces ==
  ASSUME PlacesInv, DraftInv', UNCHANGED <<people, place>>,
         \A t \in draft' : t \in draft \/ t.slot = NoSlot,
         selection' = selection \/ selection' \subseteq Int \X Int, tool' \in Tools
  PROVE  PlacesInv'
<1>1. OneTilePerSlot' /\ DrawnSlots' \subseteq LiveSlots
  BY LessOrUnsaved DEF PlacesInv
<1>2. selection' \subseteq Int \X Int
  BY DEF PlacesInv, PlanTyped
<1> QED
  BY <1>1, <1>2, DrawingPlaces

LEMMA RedrawnPlaces ==
  ASSUME PlacesInv, DraftInv', UNCHANGED <<people, place>>, SlotsFollow(draft, draft'),
         selection' = selection \/ selection' \subseteq Int \X Int, UNCHANGED tool
  PROVE  PlacesInv'
<1>1. OneTilePerSlot' /\ DrawnSlots' \subseteq LiveSlots
  BY RedrawnSlots DEF PlacesInv
<1>2. selection' \subseteq Int \X Int /\ tool' \in Tools
  BY DEF PlacesInv, PlanTyped
<1> QED
  BY <1>1, <1>2, DrawingPlaces

LEMMA MoveSelectionPlaces ==
  ASSUME PlacesInv, NEW byX \in Int, NEW byY \in Int, MoveSelection(byX, byY)
  PROVE  PlacesInv'
<1> DEFINE landed == {ShiftedBy(t, byX, byY) : t \in Selected}
<1>1. DraftInv /\ DraftInv' /\ SlotsFollow(draft, draft')
  BY MoveSelectionDraft, MoveSelectionSlots DEF PlacesInv
<1>2. /\ draft' = (draft \ Selected) \cup landed /\ selection' = Keys(landed)
      /\ UNCHANGED <<tool, people, place>>
  BY DEF MoveSelection
<1> HIDE DEF landed
<1>3. landed \subseteq Tile
  BY <1>1, <1>2 DEF DraftInv
<1>4. selection' \subseteq Int \X Int
  BY <1>2, <1>3, KeysTyped
<1> QED
  BY <1>1, <1>2, <1>4, RedrawnPlaces

LEMMA MovePlaces ==
  ASSUME PlacesInv, NEW held \in draft, NEW to \in Square, Move(held, to)
  PROVE  PlacesInv'
<1> DEFINE landing == [held EXCEPT !.dx = to.x - AnchorShown.x, !.dy = to.y - AnchorShown.y]
<1>0. DraftInv /\ DraftInv' /\ SlotsFollow(draft, draft')
  BY MoveDraft, MoveSlots DEF PlacesInv
<1>1. held \in Tile /\ AnchorShown \in Coordinate /\ to \in Coordinate
  BY <1>0, AnchorTyped DEF DraftInv, Square, Coordinate, Axis
<1>2. CASE OffsetKey(held) \in selection
  <2>1. MoveSelection(landing.dx - held.dx, landing.dy - held.dy)
    BY <1>2 DEF Move
  <2>2. landing.dx - held.dx \in Int /\ landing.dy - held.dy \in Int
    BY <1>1 DEF Tile, Coordinate
  <2> HIDE DEF landing
  <2> QED
    BY <2>1, <2>2, MoveSelectionPlaces
<1>3. CASE OffsetKey(held) \notin selection
  <2>1. UNCHANGED <<selection, tool, people, place>>
    BY <1>3 DEF Move
  <2> QED
    BY <2>1, <1>0, RedrawnPlaces
<1> QED
  BY <1>2, <1>3

LEMMA SweepSelectPlaces ==
  ASSUME PlacesInv, NEW box, SweepSelect(box)
  PROVE  PlacesInv'
<1> DEFINE some == {t \in draft : TileInsideBox(AbsoluteOf(AnchorShown, t), box)}
<1>1. selection' = Keys(some) /\ UNCHANGED <<draft, tool, people, place>>
  BY DEF SweepSelect
<1>2. some \subseteq Tile
  BY DEF PlacesInv, DraftInv
<1> HIDE DEF some
<1>3. selection' \subseteq Int \X Int /\ tool' \in Tools
  BY <1>1, <1>2, KeysTyped DEF PlacesInv, PlanTyped
<1>4. DraftInv'
  BY <1>1, LessDrawn DEF PlacesInv
<1> QED
  BY <1>1, <1>3, <1>4, LessOrUnsavedPlaces

LEMMA OnTheMapPlaces ==
  ASSUME PlacesInv, OnTheMap
  PROVE  PlacesInv'
<1>0. DraftInv /\ DraftInv' /\ tool \in Tools
  BY OnTheMapDraft DEF PlacesInv, PlanTyped
<1>1. ASSUME NEW at \in Square, PickUp(at) PROVE PlacesInv'
  <2>1. draft' \subseteq draft /\ UNCHANGED <<selection, tool, people, place>>
    BY <1>1 DEF PickUp
  <2> QED
    BY <2>1, <1>0, LessOrUnsavedPlaces
<1>2. ASSUME NEW at \in Square, PickDown(at) PROVE PlacesInv'
  <2>1. PICK brush \in Brushes : /\ draft' = draft \cup {TileAt(at, brush, NoSlot)}
                                 /\ UNCHANGED <<selection, tool, people, place>>
    BY <1>2 DEF PickDown
  <2>2. TileAt(at, brush, NoSlot).slot = NoSlot
    BY DEF TileAt
  <2> QED
    BY <2>1, <2>2, <1>0, LessOrUnsavedPlaces
<1>3. ASSUME NEW box, SweepSelect(box) PROVE PlacesInv'
  BY <1>3, SweepSelectPlaces
<1>4. ASSUME NEW box, SweepErase(box) PROVE PlacesInv'
  <2>1. draft' \subseteq draft /\ UNCHANGED <<selection, tool, people, place>>
    BY <1>4 DEF SweepErase
  <2> QED
    BY <2>1, <1>0, LessOrUnsavedPlaces
<1>5. ASSUME NEW box, SweepMark(box) PROVE PlacesInv'
  <2>1. UNCHANGED <<selection, tool, people, place>> /\ \A t \in draft' : t \in draft \/ t.slot = NoSlot
    BY <1>5 DEF SweepMark
  <2> QED
    BY <2>1, <1>0, LessOrUnsavedPlaces
<1>6. ASSUME NEW held \in draft, NEW to \in Square, Move(held, to) PROVE PlacesInv'
  BY <1>6, MovePlaces
<1>7. ASSUME NEW player \in Players, NEW at \in Square, DropMember(player, at) PROVE PlacesInv'
  BY <1>7, DropMemberPlaces
<1> QED
  BY <1>1, <1>2, <1>3, <1>4, <1>5, <1>6, <1>7 DEF OnTheMap

LEMMA BesideTheMapPlaces ==
  ASSUME PlacesInv, BesideTheMap
  PROVE  PlacesInv'
<1>0. DraftInv /\ DraftInv' /\ tool \in Tools /\ slots \subseteq Row /\ OwnPlaces(slots)
  BY BesideTheMapDraft DEF PlacesInv, PlanTyped, DraftInv
<1>1. ASSUME NEW chosen \in Tools, SetTool(chosen) PROVE PlacesInv'
  <2>1. /\ tool' \in Tools /\ UNCHANGED <<draft, people, place>>
        /\ selection' = selection \/ selection' \subseteq Int \X Int
    BY <1>1 DEF SetTool
  <2> QED
    BY <2>1, <1>0, LessOrUnsavedPlaces
<1>2. ASSUME NEW nudge \in Nudges, MoveSelection(nudge[1], nudge[2]) PROVE PlacesInv'
  <2>1. nudge[1] \in Int /\ nudge[2] \in Int
    BY DEF Nudges
  <2> QED
    BY <2>1, <1>2, MoveSelectionPlaces
<1>3. CASE Deselect \/ DeleteSelection
  <2>1. /\ draft' \subseteq draft /\ UNCHANGED <<tool, people, place>>
        /\ selection' \subseteq Int \X Int
    BY <1>3 DEF Deselect, DeleteSelection
  <2> QED
    BY <2>1, <1>0, LessOrUnsavedPlaces
<1>4. ASSUME NEW c \in Colours, PaintSelection(c) PROVE PlacesInv'
  <2>1. UNCHANGED <<selection, tool, people, place>>
    BY <1>4 DEF PaintSelection
  <2> QED
    BY <2>1, <1>0, <1>4, PaintSlots, RedrawnPlaces
<1>5. ASSUME NEW offsets, Generate(offsets) PROVE PlacesInv'
  <2> DEFINE base(o) == [dx |-> o.dx, dy |-> o.dy, spanX |-> o.spanX, spanY |-> o.spanY,
                         kind |-> "base", colour |-> Frankie.colour, slot |-> NoSlot]
  <2>1. UNCHANGED <<selection, tool, people, place>> /\ \E usable : draft' = {Frankie} \cup {base(o) : o \in usable}
    BY <1>5 DEF Generate
  <2>2. Frankie.slot = NoSlot
    BY DEF Frankie
  <2>3. \A o : base(o).slot = NoSlot
    OBVIOUS
  <2> HIDE DEF base
  <2>4. \A t \in draft' : t.slot = NoSlot
    BY <2>1, <2>2, <2>3
  <2> QED
    BY <2>1, <2>4, <1>0, LessOrUnsavedPlaces
<1>6. ASSUME NEW shape \in Shapes, TemplateLoad(shape) PROVE PlacesInv'
  <2>1. UNCHANGED <<selection, tool, people, place>> /\ draft' = Layout(shape) /\ shape \subseteq Tile
    BY <1>6, EditorAssumption DEF TemplateLoad, DraftFromTiles
  <2>2. \A t \in draft' : t.slot = NoSlot
    BY <2>1 DEF Layout, Tile
  <2> QED
    BY <2>1, <2>2, <1>0, LessOrUnsavedPlaces
<1>7. CASE Discard
  <2>1. UNCHANGED <<selection, tool, people, place>> /\ draft' = DraftFromBoard(slots)
    BY <1>7 DEF Discard, Saved
  <2>2. OneTilePerSlot' /\ DrawnSlots' \subseteq LiveSlots
    BY <2>1, <1>0, BoardSlots DEF OneTilePerSlot, DrawnSlots, LiveSlots
  <2>3. selection' \subseteq Int \X Int /\ tool' \in Tools
    BY <2>1 DEF PlacesInv, PlanTyped
  <2> QED
    BY <2>1, <2>2, <2>3, <1>0, DrawingPlaces
<1>8. CASE Clear
  <2>1. UNCHANGED <<selection, tool, people, place>> /\ draft' = {}
    BY <1>8 DEF Clear
  <2> QED
    BY <2>1, <1>0, LessOrUnsavedPlaces
<1>9. ASSUME UNCHANGED <<draft, selection, tool, slots, people, members>> PROVE PlacesInv'
  BY <1>0, <1>9 DEF PlacesInv, PlanTyped, OneTilePerSlot, OneTilePerMember, LiveSlots, DrawnSlots,
                    people, OwnPlaces
<1>10. ASSUME NEW to \in Anchors, MoveAnchor(to) PROVE PlacesInv'
  BY <1>9, <1>10 DEF MoveAnchor
<1>11. CASE AnchorMoved \/ AnchorRefused
  BY <1>9, <1>11 DEF AnchorMoved, AnchorRefused
<1> QED
  BY <1>1, <1>2, <1>3, <1>4, <1>5, <1>6, <1>7, <1>8, <1>10, <1>11
     DEF BesideTheMap, GenerateBlock, GenerateRing

-----------------------------------------------------------------------------
(* Filling the tiles: the order in which they are filled is strict and     *)
(* total, so no two of them wait for the same member.                      *)

LEMMA LeastOfNats == ASSUME NEW S \in SUBSET Nat, S # {} PROVE \E x \in S : \A y \in S : x <= y
<1> DEFINE R == OpToRel(<, Nat)
<1>1. IsWellFoundedOn(R, Nat)
  BY NatLessThanWellFounded
<1>2. \A x, y \in Nat : x < y => <<x, y>> \in R
  BY DEF OpToRel
<1> HIDE DEF R
<1>3. PICK x \in S : \A y \in S : ~ (<<y, x>> \in R)
  BY <1>1, WFMin
<1>4. ASSUME NEW y \in S PROVE x <= y
  <2>1. x \in Nat /\ y \in Nat
    OBVIOUS
  <2>2. ~ (y < x)
    BY <1>2, <1>3, <2>1
  <2> QED
    BY <2>1, <2>2
<1> QED
  BY <1>4

LEMMA CeilNatural == ASSUME NEW n \in Nat, NEW d \in Nat \ {0} PROVE CeilBy(n, d) \in Nat
BY DEF CeilBy

LEMMA RingNatural ==
  ASSUME NEW tiles, tiles \subseteq Tile, NEW at, at.dx \in Int, at.dy \in Int
  PROVE  RingOf(at, tiles) \in Nat
<1> DEFINE rings == {RingFrom(core, at) : core \in CoresOf(tiles)}
           Box == [x0 : Int, x1 : Int, y0 : Int, y1 : Int]
<1>1. \A t \in tiles : Ground(t) \in Box
  BY DEF Ground, Footprint, SpanLow, Tile
<1>2. CoresOf(tiles) \subseteq Box
  BY <1>1 DEF CoresOf
<1>3. CoresOf(tiles) # {}
  BY DEF CoresOf
<1>4. ASSUME NEW core \in Box PROVE RingFrom(core, at) \in Nat
  <2> DEFINE gapX == GreaterOf(GreaterOf(core.x0 - at.dx, at.dx - core.x1), 0)
             gapY == GreaterOf(GreaterOf(core.y0 - at.dy, at.dy - core.y1), 0)
  <2>1. gapX \in Nat /\ gapY \in Nat
    BY DEF GreaterOf
  <2>2. RingFrom(core, at) = GreaterOf(CeilBy(gapX, BaseSpan), CeilBy(gapY, BaseSpan))
    BY DEF RingFrom
  <2> HIDE DEF gapX, gapY
  <2>3. CeilBy(gapX, BaseSpan) \in Nat /\ CeilBy(gapY, BaseSpan) \in Nat
    BY <2>1, CeilNatural
  <2> QED
    BY <2>2, <2>3 DEF GreaterOf
<1>5. rings \in SUBSET Nat /\ rings # {}
  BY <1>2, <1>3, <1>4
<1>6. PICK x \in rings : \A y \in rings : x <= y
  BY <1>5, LeastOfNats
<1>7. \A core \in CoresOf(tiles) : x <= RingFrom(core, at)
  BY <1>6
<1>8. RingOf(at, tiles) \in rings
  BY <1>6, <1>7 DEF RingOf
<1> QED
  BY <1>5, <1>8

\* Two rows of a board that is apart are not in the same place.
LEMMA RowKeyIdentifies ==
  ASSUME NEW rows, rows \subseteq Row, ApartFrom(rows), NEW a \in rows, NEW b \in rows,
         OffsetKey(a) = OffsetKey(b)
  PROVE  a = b
<1>1. /\ a.dx \in Int /\ a.dy \in Int /\ a.spanX \in Nat \ {0} /\ a.spanY \in Nat \ {0}
      /\ b.spanX \in Nat \ {0} /\ b.spanY \in Nat \ {0} /\ a.dx = b.dx /\ a.dy = b.dy
  BY DEF Row, OffsetKey
<1>2. /\ SpanLow(a.dx, a.spanX) <= a.dx /\ a.dx <= SpanLow(a.dx, a.spanX) + a.spanX - 1
      /\ SpanLow(a.dx, b.spanX) <= a.dx /\ a.dx <= SpanLow(a.dx, b.spanX) + b.spanX - 1
      /\ SpanLow(a.dy, a.spanY) <= a.dy /\ a.dy <= SpanLow(a.dy, a.spanY) + a.spanY - 1
      /\ SpanLow(a.dy, b.spanY) <= a.dy /\ a.dy <= SpanLow(a.dy, b.spanY) + b.spanY - 1
  BY <1>1, CoversItsCoordinate
<1>3. /\ SpanLow(a.dx, a.spanX) \in Int /\ SpanLow(a.dx, b.spanX) \in Int
      /\ SpanLow(a.dy, a.spanY) \in Int /\ SpanLow(a.dy, b.spanY) \in Int
  BY <1>1 DEF SpanLow
<1>4. TilesOverlap(a, b)
  BY <1>1, <1>2, <1>3 DEF TilesOverlap, Ground, Footprint
<1> QED
  BY <1>4 DEF ApartFrom

LEMMA FillOrder ==
  ASSUME DraftInv
  PROVE  /\ \A a \in slots : ~ FillsBefore(a, a)
         /\ \A a, b \in slots : a # b => FillsBefore(a, b) \/ FillsBefore(b, a)
         /\ \A a, b, c \in slots : FillsBefore(a, b) /\ FillsBefore(b, c) => FillsBefore(a, c)
<1>1. /\ \A a \in slots : a.dx \in Int /\ a.dy \in Int /\ a.spanX \in Nat \ {0} /\ a.spanY \in Nat \ {0}
      /\ ApartFrom(slots) /\ draft \subseteq Tile
  BY DEF DraftInv, Row
<1>2. \A a \in slots : RingOf(a, draft) \in Nat
  BY <1>1, RingNatural
<1>3. ASSUME NEW a \in slots, NEW b \in slots, a # b PROVE a.dx # b.dx \/ a.dy # b.dy
  BY <1>3, RowKeyIdentifies DEF DraftInv, OffsetKey
<1>4. \A a \in slots : ~ FillsBefore(a, a)
  BY <1>1, <1>2 DEF FillsBefore
<1>5. \A a, b \in slots : a # b => FillsBefore(a, b) \/ FillsBefore(b, a)
  BY <1>1, <1>2, <1>3 DEF FillsBefore
<1>6. \A a, b, c \in slots : FillsBefore(a, b) /\ FillsBefore(b, c) => FillsBefore(a, c)
  BY <1>1, <1>2 DEF FillsBefore
<1> QED
  BY <1>4, <1>5, <1>6

LEMMA TurnsApart ==
  ASSUME DraftInv, NEW open, open \subseteq slots, IsFiniteSet(open), NEW a \in open, NEW b \in open,
         Cardinality({o \in open : FillsBefore(o, a)}) = Cardinality({o \in open : FillsBefore(o, b)})
  PROVE  a = b
<1>1. ASSUME NEW s \in open, NEW t \in open, FillsBefore(s, t)
      PROVE  Cardinality({o \in open : FillsBefore(o, s)}) # Cardinality({o \in open : FillsBefore(o, t)})
  <2> DEFINE before == {o \in open : FillsBefore(o, s)}
             after == {o \in open : FillsBefore(o, t)}
  <2>1. before \subseteq after /\ s \in after /\ s \notin before
    BY <1>1, FillOrder
  <2>2. IsFiniteSet(after)
    BY FS_Subset, after \in SUBSET open
  <2> HIDE DEF before, after
  <2>3. Cardinality(before) # Cardinality(after)
    BY <2>1, <2>2, FS_Subset
  <2> QED
    BY <2>3 DEF before, after
<1> QED
  BY <1>1, FillOrder

LEMMA FilledApart ==
  ASSUME PlacesInv, NEW rank
  PROVE  /\ AutoAssign(rank) \in [SlotIds -> Players \cup {NoOne}]
         /\ \A s, t \in SlotIds : /\ AutoAssign(rank)[s] = AutoAssign(rank)[t]
                                  /\ AutoAssign(rank)[s] # NoOne
                                  => s = t
<1> DEFINE honoured == {r \in Seats : /\ pinned[r.slot] \in members
                                      /\ \A other \in Seats : FillsBefore(other, r)
                                           => pinned[other.slot] # pinned[r.slot]}
           queue == members \ {pinned[r.slot] : r \in honoured}
           open == Seats \ honoured
           turn(r) == Cardinality({o \in open : FillsBefore(o, r)})
           taker(r) == {p \in queue : Cardinality({q \in queue : rank[q] < rank[p]}) = turn(r)}
           taken(s) == CHOOSE p \in taker(CHOOSE r \in open : r.slot = s) : TRUE
           filled(s) == IF \E r \in honoured : r.slot = s THEN pinned[s]
                        ELSE IF \E r \in open : r.slot = s /\ taker(r) # {} THEN taken(s) ELSE NoOne
<1>1. AutoAssign(rank) = [s \in SlotIds |-> filled(s)]
  BY DEF AutoAssign
<1>2. /\ DraftInv /\ OwnPlaces(slots) /\ Seats \subseteq slots /\ members \subseteq Players
      /\ \A r \in slots : r.slot \in SlotIds
  BY DEF PlacesInv, PlanTyped, Seats, DraftInv, Row
<1>3. IsFiniteSet(open) /\ open \subseteq slots /\ honoured \subseteq slots /\ honoured \cap open = {}
  BY <1>2, FS_Subset DEF PlacesInv, Seats
<1>4. \A r, q \in honoured : pinned[r.slot] = pinned[q.slot] => r = q
  BY <1>2, FillOrder
<1>5. \A r \in honoured : pinned[r.slot] \in members \ queue
  OBVIOUS
<1>6. ASSUME NEW r \in open, NEW q \in open, NEW p \in taker(r), p \in taker(q) PROVE r = q
  <2>1. turn(r) = turn(q)
    BY <1>6
  <2> HIDE DEF honoured, queue, open
  <2>2. Cardinality({o \in open : FillsBefore(o, r)}) = Cardinality({o \in open : FillsBefore(o, q)})
    BY <2>1
  <2> QED
    BY <2>2, <1>2, <1>3, TurnsApart
<1>7. \A r \in open : taker(r) \subseteq queue
  OBVIOUS
<1>8. queue \subseteq members
  OBVIOUS
<1> HIDE DEF turn, taker, queue, honoured, open
<1>9. ASSUME NEW r \in open PROVE (CHOOSE q \in open : q.slot = r.slot) = r
  <2>1. (CHOOSE q \in open : q.slot = r.slot) \in open /\ (CHOOSE q \in open : q.slot = r.slot).slot = r.slot
    OBVIOUS
  <2> QED
    BY <2>1, <1>2, <1>3 DEF OwnPlaces
<1>10. ASSUME NEW r \in open, taker(r) # {} PROVE taken(r.slot) \in taker(r)
  BY <1>9, <1>10
<1> HIDE DEF taken
<1>11. ASSUME NEW s, filled(s) # NoOne
       PROVE  \/ \E r \in honoured : r.slot = s /\ filled(s) = pinned[s]
              \/ \E r \in open : r.slot = s /\ filled(s) \in taker(r)
  BY <1>10, <1>11
<1> HIDE DEF filled
<1>12. ASSUME NEW s, NEW t, filled(s) = filled(t), filled(s) # NoOne PROVE s = t
  <2>1. CASE \E r \in honoured : r.slot = s /\ filled(s) = pinned[s]
    <3>1. PICK r \in honoured : r.slot = s /\ filled(s) = pinned[s]
      BY <2>1
    <3>2. filled(t) \notin queue
      BY <3>1, <1>5, <1>12
    <3>3. PICK q \in honoured : q.slot = t /\ filled(t) = pinned[t]
      BY <3>2, <1>7, <1>11, <1>12
    <3> QED
      BY <3>1, <3>3, <1>4, <1>12
  <2>2. CASE \E r \in open : r.slot = s /\ filled(s) \in taker(r)
    <3>1. PICK r \in open : r.slot = s /\ filled(s) \in taker(r)
      BY <2>2
    <3>2. ~ \E q \in honoured : q.slot = t /\ filled(t) = pinned[t]
      BY <3>1, <1>5, <1>7, <1>12
    <3>3. PICK q \in open : q.slot = t /\ filled(t) \in taker(q)
      BY <3>2, <1>11, <1>12
    <3> QED
      BY <3>1, <3>3, <1>6, <1>12
  <2> QED
    BY <2>1, <2>2, <1>11, <1>12
<1>13. ASSUME NEW s PROVE filled(s) \in Players \cup {NoOne}
  <2>1. CASE \E r \in honoured : r.slot = s /\ filled(s) = pinned[s]
    BY <2>1, <1>2, <1>5
  <2>2. CASE \E r \in open : r.slot = s /\ filled(s) \in taker(r)
    BY <2>2, <1>2, <1>7, <1>8
  <2> QED
    BY <2>1, <2>2, <1>11
<1> QED
  BY <1>1, <1>12, <1>13

-----------------------------------------------------------------------------
(* The table of tiles.                                                     *)

LEMMA TablePlaces ==
  ASSUME PlacesInv, UNCHANGED <<draft, selection, tool, place>>,
         assignments' \in [SlotIds -> Players \cup {NoOne}],
         pinned' \in [SlotIds -> Players \cup {NoOne}],
         \A s, t \in LiveSlots : assignments'[s] = assignments'[t] /\ assignments'[s] # NoOne => s = t
  PROVE  PlacesInv'
<1>1. DraftInv'
  BY LessDrawn DEF PlacesInv
<1>2. PlanTyped' /\ OwnPlaces(slots)' /\ IsFiniteSet(slots)' /\ OneTilePerSlot'
  BY DEF PlacesInv, PlanTyped, place, OwnPlaces, OneTilePerSlot
<1>3. LiveSlots' = LiveSlots
  BY DEF LiveSlots, DrawnSlots, place
<1>4. OneTilePerMember'
  BY <1>3 DEF OneTilePerMember
<1> QED
  BY <1>1, <1>2, <1>4 DEF PlacesInv

LEMMA InTheTablePlaces ==
  ASSUME PlacesInv, InTheTable
  PROVE  PlacesInv'
<1>0. /\ assignments \in [SlotIds -> Players \cup {NoOne}]
      /\ pinned \in [SlotIds -> Players \cup {NoOne}]
      /\ members \subseteq Players /\ LiveSlots \subseteq SlotIds
      /\ \A s, t \in LiveSlots : assignments[s] = assignments[t] /\ assignments[s] # NoOne => s = t
  BY DEF PlacesInv, PlanTyped, OneTilePerMember, LiveSlots, DrawnSlots, DraftInv, Tile, Row
<1>1. ASSUME UNCHANGED <<draft, selection, tool, assignments, place>>,
             pinned' \in [SlotIds -> Players \cup {NoOne}]
      PROVE  PlacesInv'
  BY <1>0, <1>1, TablePlaces
<1>2. ASSUME NEW id, NEW player \in members, ChooseFor(id, player) PROVE PlacesInv'
  <2>1. /\ assignments' = [s \in SlotIds |-> IF s = id THEN player
                             ELSE IF assignments[s] = player THEN NoOne ELSE assignments[s]]
        /\ pinned' = [s \in SlotIds |-> IF s = id THEN player
                        ELSE IF assignments[s] = player THEN NoOne ELSE pinned[s]]
        /\ UNCHANGED <<draft, selection, tool, place>>
    BY <1>2 DEF ChooseFor
  <2>2. /\ assignments' \in [SlotIds -> Players \cup {NoOne}]
        /\ pinned' \in [SlotIds -> Players \cup {NoOne}]
    BY <1>0, <2>1
  <2>3. \A s, t \in LiveSlots : assignments'[s] = assignments'[t] /\ assignments'[s] # NoOne => s = t
    BY <1>0, <2>1
  <2> QED
    BY <2>1, <2>2, <2>3, TablePlaces
<1>3. ASSUME NEW id, Vacate(id) PROVE PlacesInv'
  <2>1. /\ assignments' = [assignments EXCEPT ![id] = NoOne] /\ pinned' = [pinned EXCEPT ![id] = NoOne]
        /\ UNCHANGED <<draft, selection, tool, place>>
    BY <1>3 DEF Vacate
  <2>2. /\ assignments' \in [SlotIds -> Players \cup {NoOne}]
        /\ pinned' \in [SlotIds -> Players \cup {NoOne}]
    BY <1>0, <2>1
  <2>3. \A s, t \in LiveSlots : assignments'[s] = assignments'[t] /\ assignments'[s] # NoOne => s = t
    BY <1>0, <2>1
  <2> QED
    BY <2>1, <2>2, <2>3, TablePlaces
<1>4. ASSUME NEW id, TogglePin(id) PROVE PlacesInv'
  <2>1. /\ pinned' = [pinned EXCEPT ![id] = IF pinned[id] = NoOne THEN assignments[id] ELSE NoOne]
        /\ UNCHANGED <<draft, selection, tool, assignments, place>>
    BY <1>4 DEF TogglePin
  <2>2. pinned' \in [SlotIds -> Players \cup {NoOne}]
    BY <1>0, <2>1
  <2> QED
    BY <2>1, <2>2, <1>1
<1>5. CASE EmptyEveryTile
  <2>1. assignments' = [s \in SlotIds |-> NoOne] /\ UNCHANGED <<draft, selection, tool, pinned, place>>
    BY <1>5 DEF EmptyEveryTile
  <2> QED
    BY <1>0, <2>1, TablePlaces
<1>6. CASE UnpinEverything
  <2>1. pinned' = [s \in SlotIds |-> NoOne] /\ UNCHANGED <<draft, selection, tool, assignments, place>>
    BY <1>6 DEF UnpinEverything
  <2> QED
    BY <2>1, <1>1
<1>7. ASSUME NEW rank \in Rankings, Fill(rank) PROVE PlacesInv'
  <2>1. assignments' = AutoAssign(rank) /\ UNCHANGED <<draft, selection, tool, pinned, place>>
    BY <1>7 DEF Fill
  <2>2. /\ assignments' \in [SlotIds -> Players \cup {NoOne}]
        /\ \A s, t \in SlotIds : assignments'[s] = assignments'[t] /\ assignments'[s] # NoOne => s = t
    BY <2>1, FilledApart
  <2> QED
    BY <1>0, <2>1, <2>2, TablePlaces
<1>8. ASSUME NEW some \in SUBSET Players, PinWhere(some) PROVE PlacesInv'
  <2>1. /\ pinned' = [s \in SlotIds |-> IF assignments[s] \in some \cap members
                                        THEN assignments[s] ELSE pinned[s]]
        /\ UNCHANGED <<draft, selection, tool, assignments, place>>
    BY <1>8 DEF PinWhere
  <2>2. pinned' \in [SlotIds -> Players \cup {NoOne}]
    BY <1>0, <2>1
  <2> QED
    BY <2>1, <2>2, <1>1
<1> QED
  BY <1>2, <1>3, <1>4, <1>5, <1>6, <1>7, <1>8 DEF InTheTable

LEMMA RosterPlaces ==
  ASSUME PlacesInv, UNCHANGED <<draft, selection, tool, anchor, pendingAnchor, slots, people>>,
         members' \subseteq Players
  PROVE  PlacesInv'
BY DEF PlacesInv, DraftInv, NoSharedGround, PlanTyped, OneTilePerSlot, OneTilePerMember,
       LiveSlots, DrawnSlots, people, OwnPlaces

LEMMA NextPlaces ==
  ASSUME PlacesInv, [Next]_editorVars
  PROVE  PlacesInv'
<1>2. CASE UNCHANGED editorVars
  BY <1>2, RosterPlaces DEF editorVars, people, PlacesInv, PlanTyped
<1>3. CASE RosterArrives
  BY <1>3, RosterPlaces DEF RosterArrives
<1>4. CASE Refetched
  <2>1. PICK rows \in Boards, at \in Anchors : BoardArrives(rows, at)
    BY <1>4 DEF Refetched
  <2>2. /\ at \in Coordinate /\ rows \subseteq Row /\ ApartFrom(rows)
        /\ IsFiniteSet(rows) /\ OwnPlaces(rows)
    BY EditorAssumption, BoardsAssumption
  <2> QED
    BY <2>1, <2>2, BoardArrivesPlaces
<1> QED
  BY <1>2, <1>3, <1>4, OnTheMapPlaces, BesideTheMapPlaces, InTheTablePlaces DEF Next

LEMMA InitPlaces ==
  ASSUME Init
  PROVE  PlacesInv
<1>1. slots \in Boards /\ draft = DraftFromBoard(slots)
  BY DEF Init
<1>2. DraftInv /\ slots \subseteq Row /\ IsFiniteSet(slots) /\ OwnPlaces(slots)
  BY <1>1, InitDraft, BoardsAssumption DEF DraftInv
<1>3. PlanTyped
  BY <1>2, OccupantsApart DEF Init, PlanTyped, Tools
<1>4. OneTilePerSlot /\ LiveSlots \subseteq SlotIds
  BY <1>1, <1>2, BoardSlots DEF OneTilePerSlot, LiveSlots, DrawnSlots, DraftInv, Tile, Row
<1>5. OneTilePerMember
  BY <1>2, <1>4, OccupantsApart DEF Init, OneTilePerMember
<1> QED
  BY <1>2, <1>3, <1>4, <1>5 DEF PlacesInv

\* What the invariant says to an officer.
LEMMA PlacesInvIsEnough ==
  ASSUME PlacesInv
  PROVE  TypeOK /\ OneTilePerSlot /\ OneTilePerMember
BY DEF PlacesInv, DraftInv, PlanTyped, TypeOK

\* Whatever is drawn, filled, pinned, read again or saved by others, a saved
\* place belongs to one tile and no member stands on two (FormationEditor).
THEOREM PlacesStayUnique == Spec => [](TypeOK /\ OneTilePerSlot /\ OneTilePerMember)
<1>1. Init => PlacesInv
  BY InitPlaces
<1>2. PlacesInv /\ [Next]_editorVars => PlacesInv'
  BY NextPlaces
<1>3. PlacesInv => TypeOK /\ OneTilePerSlot /\ OneTilePerMember
  BY PlacesInvIsEnough
<1> QED
  BY <1>1, <1>2, <1>3, PTL DEF Spec

-----------------------------------------------------------------------------
(* What is drawn by hand lies on the map; what is moved keeps its people.  *)

LEMMA ShownThere ==
  ASSUME NEW a \in Coordinate, NEW to \in Coordinate, NEW t,
         t.dx = to.x - a.x, t.dy = to.y - a.y
  PROVE  AbsoluteOf(a, t) = to
BY DEF AbsoluteOf, Coordinate

LEMMA SquareOnMap ==
  ASSUME NEW at \in Square
  PROVE  FitsOnMap(at, 1, 1)
<1>1. at.x \in Int /\ at.y \in Int /\ MapMin <= at.x /\ at.x <= MapMax /\ MapMin <= at.y /\ at.y <= MapMax
  BY DEF Square, Axis
<1>2. SpanLow(at.x, 1) = at.x /\ SpanLow(at.y, 1) = at.y
  BY <1>1 DEF SpanLow
<1> QED
  BY <1>1, <1>2 DEF FitsOnMap, Footprint

LEMMA MarkedOnMap ==
  ASSUME DraftInv, NEW box, SweepMark(box), NEW t \in draft', t \notin draft
  PROVE  OnMap(t)
<1>0. AnchorShown \in Coordinate
  BY AnchorTyped
<1>1. PICK colour \in Colours, f \in FreeTilesIn(box, AnchorShown, draft) :
         t = [dx |-> f.dx, dy |-> f.dy, spanX |-> 1, spanY |-> 1,
              kind |-> "structure", colour |-> colour, slot |-> NoSlot]
  BY DEF SweepMark, OutlineTilesIn
<1>2. PICK x \in Axis, y \in Axis : f.dx = x - AnchorShown.x /\ f.dy = y - AnchorShown.y
  BY <1>1 DEF FreeTilesIn
<1> DEFINE at == [x |-> x, y |-> y]
<1>3. at \in Square /\ at \in Coordinate /\ at.x = x /\ at.y = y
  BY DEF Square, Coordinate, Axis
<1>4. t.dx = at.x - AnchorShown.x /\ t.dy = at.y - AnchorShown.y /\ t.spanX = 1 /\ t.spanY = 1
  BY <1>1, <1>2, <1>3
<1> HIDE DEF at
<1> QED
  BY <1>0, <1>3, <1>4, ShownThere, SquareOnMap DEF OnMap

LEMMA GroupOnMap ==
  ASSUME NEW byX \in Int, NEW byY \in Int, MoveSelection(byX, byY), NEW t \in draft', t \notin draft
  PROVE  OnMap(t)
<1>1. PICK u \in Selected : t = ShiftedBy(u, byX, byY)
  BY DEF MoveSelection
<1>2. CanMoveGroup(draft, selection, byX, byY, AnchorShown)
  BY DEF MoveSelection
<1>3. u \in draft \ {v \in draft : OffsetKey(v) \notin selection}
  BY DEF Selected
<1> QED
  BY <1>1, <1>2, <1>3 DEF CanMoveGroup, OnMap

LEMMA MovedOnMap ==
  ASSUME DraftInv, NEW held \in draft, NEW to \in Square, Move(held, to), NEW t \in draft', t \notin draft
  PROVE  OnMap(t)
<1> DEFINE landing == [held EXCEPT !.dx = to.x - AnchorShown.x, !.dy = to.y - AnchorShown.y]
<1>0. held \in Tile /\ AnchorShown \in Coordinate /\ to \in Coordinate
  BY AnchorTyped DEF DraftInv, Square, Coordinate, Axis
<1>1. CASE OffsetKey(held) \in selection
  <2>1. MoveSelection(landing.dx - held.dx, landing.dy - held.dy)
    BY <1>1 DEF Move
  <2>2. landing.dx - held.dx \in Int /\ landing.dy - held.dy \in Int
    BY <1>0 DEF Tile, Coordinate
  <2> HIDE DEF landing
  <2> QED
    BY <2>1, <2>2, GroupOnMap
<1>2. CASE OffsetKey(held) \notin selection
  <2>1. draft' = (draft \ {held}) \cup {landing} /\ FitsOnMap(to, held.spanX, held.spanY)
    BY <1>2 DEF Move
  <2>2. /\ landing.dx = to.x - AnchorShown.x /\ landing.dy = to.y - AnchorShown.y
        /\ landing.spanX = held.spanX /\ landing.spanY = held.spanY
    BY <1>0 DEF Tile
  <2> HIDE DEF landing
  <2> QED
    BY <2>1, <2>2, <1>0, ShownThere DEF OnMap
<1> QED
  BY <1>1, <1>2

LEMMA DroppedOnMap ==
  ASSUME DraftInv, NEW player \in Players, NEW at \in Square, DropMember(player, at),
         NEW t \in draft', t \notin draft
  PROVE  OffsetKey(t) \in Keys(draft) \/ OnMap(t)
<1>0. AnchorShown \in Coordinate /\ at \in Coordinate /\ draft \subseteq Tile
  BY AnchorTyped DEF DraftInv, Square, Coordinate, Axis
<1>1. CASE \E u \in draft, id \in SlotIds : t = [u EXCEPT !.slot = id]
  <2>1. PICK u \in draft, id \in SlotIds : t = [u EXCEPT !.slot = id]
    BY <1>1
  <2>2. t.dx = u.dx /\ t.dy = u.dy
    BY <2>1, <1>0 DEF Tile
  <2> QED
    BY <2>2 DEF OffsetKey, Keys
<1>2. ASSUME NEW id, NEW colour, FitsOnMap(at, BaseSpan, BaseSpan),
             t = TileAt(at, [spanX |-> BaseSpan, spanY |-> BaseSpan,
                             kind |-> "base", colour |-> colour], id)
      PROVE  OnMap(t)
  <2>1. t.dx = at.x - AnchorShown.x /\ t.dy = at.y - AnchorShown.y /\ t.spanX = BaseSpan /\ t.spanY = BaseSpan
    BY <1>2 DEF TileAt
  <2> QED
    BY <2>1, <1>0, <1>2, ShownThere DEF OnMap
<1>3. GroundUnder(at) \subseteq draft
  BY DEF GroundUnder
<1>4. \/ draft' = draft
      \/ \E u \in draft, id \in SlotIds : draft' = (draft \ {u}) \cup {[u EXCEPT !.slot = id]}
      \/ \E id \in SlotIds, colour \in Colours :
           /\ FitsOnMap(at, BaseSpan, BaseSpan)
           /\ draft' = draft \cup {TileAt(at, [spanX |-> BaseSpan, spanY |-> BaseSpan,
                                               kind |-> "base", colour |-> colour], id)}
  BY <1>3 DEF DropMember
<1>5. CASE \E u \in draft, id \in SlotIds : draft' = (draft \ {u}) \cup {[u EXCEPT !.slot = id]}
  <2>1. \E u \in draft, id \in SlotIds : t = [u EXCEPT !.slot = id]
    BY <1>5
  <2> QED
    BY <2>1, <1>1
<1>6. ASSUME NEW id \in SlotIds, NEW colour \in Colours, FitsOnMap(at, BaseSpan, BaseSpan),
             draft' = draft \cup {TileAt(at, [spanX |-> BaseSpan, spanY |-> BaseSpan,
                                              kind |-> "base", colour |-> colour], id)}
      PROVE  OnMap(t)
  <2>1. t = TileAt(at, [spanX |-> BaseSpan, spanY |-> BaseSpan, kind |-> "base", colour |-> colour], id)
    BY <1>6
  <2> QED
    BY <2>1, <1>2, <1>6
<1> QED
  BY <1>4, <1>5, <1>6

LEMMA DrawnOnMap ==
  ASSUME DraftInv, OnTheMap, NEW t \in draft', t \notin draft
  PROVE  OffsetKey(t) \in Keys(draft) \/ OnMap(t)
<1>1. ASSUME NEW at \in Square, PickUp(at) PROVE FALSE
  BY <1>1 DEF PickUp
<1>2. ASSUME NEW at \in Square, PickDown(at) PROVE OnMap(t)
  <2>1. PICK brush \in Brushes : t = TileAt(at, brush, NoSlot) /\ FitsOnMap(at, brush.spanX, brush.spanY)
    BY <1>2 DEF PickDown
  <2>2. /\ t.dx = at.x - AnchorShown.x /\ t.dy = at.y - AnchorShown.y
        /\ t.spanX = brush.spanX /\ t.spanY = brush.spanY
    BY <2>1 DEF TileAt
  <2>3. AnchorShown \in Coordinate /\ at \in Coordinate
    BY AnchorTyped DEF Square, Coordinate, Axis
  <2> QED
    BY <2>1, <2>2, <2>3, ShownThere DEF OnMap
<1>3. ASSUME NEW box, SweepSelect(box) \/ SweepErase(box) PROVE FALSE
  BY <1>3 DEF SweepSelect, SweepErase
<1> QED
  BY <1>1, <1>2, <1>3, MarkedOnMap, MovedOnMap, DroppedOnMap DEF OnTheMap

\* A pointer on the map draws nothing off it, wherever the anchor is being
\* moved to meanwhile (FormationEditor's pick, move, sweep and drop).
THEOREM HandStaysOnMap == Spec => DrawnByHandIsOnMap
<1>1. Init => DraftInv
  BY InitDraft
<1>2. DraftInv /\ [Next]_editorVars => DraftInv'
  BY NextDraft
<1>3. DraftInv /\ [Next]_editorVars =>
        [\A t \in draft' \ draft : OnTheMap => OffsetKey(t) \in Keys(draft) \/ OnMap(t)]_editorVars
  BY DrawnOnMap
<1> QED
  BY <1>1, <1>2, <1>3, PTL DEF Spec, DrawnByHandIsOnMap

LEMMA MovingKeepsSlots ==
  ASSUME PlacesInv,
         \/ \E held \in draft, to \in Square : Move(held, to)
         \/ \E c \in Colours : PaintSelection(c)
         \/ \E n \in Nudges : MoveSelection(n[1], n[2])
  PROVE  DrawnSlots' = DrawnSlots
<1>1. \A n \in Nudges : n[1] \in Int /\ n[2] \in Int
  BY DEF Nudges
<1>2. SlotsFollow(draft, draft')
  BY <1>1, MoveSlots, PaintSlots, MoveSelectionSlots DEF PlacesInv
<1> QED
  BY <1>2, RedrawnSlots DEF PlacesInv

\* Moving, nudging or painting a part of the drawing takes nobody off it
\* (FormationEditor's move and its selection).
THEOREM MovingKeepsAll == Spec => MovingKeepsPeople
<1>1. Init => PlacesInv
  BY InitPlaces
<1>2. PlacesInv /\ [Next]_editorVars => PlacesInv'
  BY NextPlaces
<1>3. PlacesInv /\ [Next]_editorVars =>
        [DrawnSlots' # DrawnSlots =>
           ~ \/ \E held \in draft, to \in Square : Move(held, to)
             \/ \E c \in Colours : PaintSelection(c)
             \/ \E n \in Nudges : MoveSelection(n[1], n[2])]_editorVars
  BY MovingKeepsSlots
<1> QED
  BY <1>1, <1>2, <1>3, PTL DEF Spec, MovingKeepsPeople

-----------------------------------------------------------------------------
(* Two officers and one board: the invariant.                              *)

\* What a call names: somebody or nobody, pinned or not.
Seating == [player : Players \cup {NoOne}, pinned : BOOLEAN]
OnlySeats(plan) == \A key \in DOMAIN plan : plan[key] \in Seating

\* A shape as the layout call is given it.
LayoutSound(layout) == layout \subseteq Tile /\ ApartFrom(layout) /\ IsFiniteSet(layout)

\* What is carried or planned is a seating; a layout is a shape.
SaveTyped ==
  /\ save.phase \in {"none", "shape", "read", "place", "people"}
  /\ save.phase = "shape" => LayoutSound(save.layout)
  /\ save.phase \in {"shape", "read", "place"} => OnlySeats(save.carried)
  /\ save.phase \in {"place", "people"} => OnlySeats(save.plan)

\* The plan of a shape save seats a tile as the drawing had it, wherever the
\* board has its id now.
PlacePlanHolds ==
  save.phase = "place" =>
    \A b \in board : b.slot \in DOMAIN save.plan =>
      save.plan[b.slot] = IF OffsetKey(b) \in DOMAIN save.carried
                          THEN save.carried[OffsetKey(b)] ELSE Nobody

\* The ids of a people save are those the officer saw, on the ground they saw.
PeoplePlanHolds ==
  save.phase = "people" =>
    /\ DOMAIN save.plan = IdsOf(save.seen)
    /\ \A b \in board, s \in save.seen : b.slot = s.slot => OffsetKey(b) = OffsetKey(s)

BoardInv == BoardSound /\ IsFiniteSet(board) /\ IdsNameOneGround

SaveInv ==
  /\ PlacesInv /\ IsFiniteSet(draft)
  /\ BoardInv /\ SaveTyped /\ PlacePlanHolds /\ PeoplePlanHolds

-----------------------------------------------------------------------------
(* What the two calls do to the board.                                     *)

\* Rows that were there keep their id and their place, and new ones take an id
\* nobody knows.
GroundKept ==
  \A b \in board' : \/ \E c \in board : b.slot = c.slot /\ OffsetKey(b) = OffsetKey(c)
                    \/ b.slot \in FreshIds

LEMMA RedrawnRow ==
  ASSUME NEW row \in Row, NEW tile \in Tile, row.pinned => row.player # NoOne
  PROVE  /\ Redrawn(row, tile) \in Row
         /\ Redrawn(row, tile).slot = row.slot
         /\ Redrawn(row, tile).dx = row.dx /\ Redrawn(row, tile).dy = row.dy
         /\ Redrawn(row, tile).spanX = tile.spanX /\ Redrawn(row, tile).spanY = tile.spanY
         /\ Redrawn(row, tile).player \in {row.player, NoOne}
         /\ Redrawn(row, tile).pinned => Redrawn(row, tile).player # NoOne
<1> DEFINE who == IF tile.kind = "base" THEN row.player ELSE NoOne
           pin == IF tile.kind = "base" THEN row.pinned ELSE FALSE
           sized == [row EXCEPT !.spanX = tile.spanX, !.spanY = tile.spanY]
           looks == [sized EXCEPT !.kind = tile.kind, !.colour = tile.colour]
           manned == [looks EXCEPT !.player = who, !.pinned = pin]
<1>1. who \in Players \cup {NoOne} /\ pin \in BOOLEAN /\ (pin => who # NoOne) /\ who \in {row.player, NoOne}
  BY DEF Row
<1>2. pin = (tile.kind = "base" /\ row.pinned)
  BY DEF Row
<1>3. Redrawn(row, tile) = manned
  BY <1>2, Zenon DEF Redrawn
<1> HIDE DEF who, pin
<1>4. /\ sized \in Row /\ sized.slot = row.slot /\ sized.dx = row.dx /\ sized.dy = row.dy
      /\ sized.spanX = tile.spanX /\ sized.spanY = tile.spanY
  BY DEF Row, Tile
<1> HIDE DEF sized
<1>5. /\ looks \in Row /\ looks.slot = row.slot /\ looks.dx = row.dx /\ looks.dy = row.dy
      /\ looks.spanX = tile.spanX /\ looks.spanY = tile.spanY
  BY <1>4 DEF Row, Tile
<1> HIDE DEF looks
<1>6. /\ manned \in Row /\ manned.slot = row.slot /\ manned.dx = row.dx /\ manned.dy = row.dy
      /\ manned.spanX = tile.spanX /\ manned.spanY = tile.spanY
      /\ manned.player = who /\ manned.pinned = pin
  BY <1>1, <1>5 DEF Row
<1> HIDE DEF manned
<1> QED
  BY <1>1, <1>3, <1>6

LEMMA FiniteImage ==
  ASSUME NEW S, IsFiniteSet(S), NEW f
  PROVE  IsFiniteSet({f[x] : x \in S})
<1> DEFINE T == {f[x] : x \in S}
           g == [x \in S |-> f[x]]
<1>1. g \in [S -> T] /\ \A t \in T : \E x \in S : g[x] = t
  OBVIOUS
<1>2. g \in Surjection(S, T)
  BY <1>1 DEF Surjection
<1> HIDE DEF g, T
<1>3. IsFiniteSet(T)
  BY <1>2, FS_Surjection
<1> QED
  BY <1>3 DEF T

LEMMA LayoutLands ==
  ASSUME BoardInv, NEW layout, LayoutSound(layout), SaveLayout(layout)
  PROVE  BoardSound' /\ IsFiniteSet(board)' /\ GroundKept
<1> DEFINE added == {t \in layout : At(OffsetKey(t), board) = {}}
           kept == board \ Gone(layout)
           tileOf(r) == CHOOSE t \in layout : OffsetKey(t) = OffsetKey(r)
           stay(r) == Redrawn(r, tileOf(r))
<1>1. PICK ids \in [added -> FreshIds] :
         /\ \A s, t \in added : ids[s] = ids[t] => s = t
         /\ board' = {stay(r) : r \in kept} \cup {NewRow(t, ids[t]) : t \in added}
  BY DEF SaveLayout
<1> DEFINE new(t) == NewRow(t, ids[t])
<1>2. /\ board \subseteq Row /\ ApartFrom(board) /\ IsFiniteSet(board)
      /\ layout \subseteq Tile /\ ApartFrom(layout) /\ IsFiniteSet(layout)
      /\ \A r, s \in board : r.slot = s.slot => r = s
      /\ \A r, s \in board : r.player = s.player /\ r.player # NoOne => r = s
      /\ \A r \in board : r.pinned => r.player # NoOne
  BY DEF BoardInv, BoardSound, LayoutSound
<1>3. kept \subseteq board /\ added \subseteq layout
  OBVIOUS
<1>4. ASSUME NEW r \in kept PROVE tileOf(r) \in layout /\ OffsetKey(tileOf(r)) = OffsetKey(r)
  <2>1. OffsetKey(r) \in Keys(layout)
    BY DEF Gone
  <2>2. \E t \in layout : OffsetKey(t) = OffsetKey(r)
    BY <2>1 DEF Keys
  <2> QED
    BY <2>2
<1>5. \A t \in added, b \in board : OffsetKey(b) # OffsetKey(t)
  BY DEF At
<1>6. FreshIds \subseteq SlotIds /\ \A b \in board : b.slot \notin FreshIds
  BY DEF FreshIds, IdsOf
<1> HIDE DEF added, kept, tileOf
<1>7. ASSUME NEW r \in kept
      PROVE  /\ stay(r) \in Row /\ stay(r).slot = r.slot /\ OffsetKey(stay(r)) = OffsetKey(r)
             /\ SameGround(stay(r), tileOf(r))
             /\ stay(r).player \in {r.player, NoOne} /\ (stay(r).pinned => stay(r).player # NoOne)
  <2>1. r \in Row /\ tileOf(r) \in Tile /\ (r.pinned => r.player # NoOne)
    BY <1>2, <1>3, <1>4
  <2>2. tileOf(r).dx = r.dx /\ tileOf(r).dy = r.dy
    BY <1>4 DEF OffsetKey
  <2> QED
    BY <2>1, <2>2, RedrawnRow DEF OffsetKey, SameGround
<1>8. ASSUME NEW t \in added
      PROVE  /\ new(t) \in Row /\ new(t).slot = ids[t] /\ ids[t] \in FreshIds
             /\ OffsetKey(new(t)) = OffsetKey(t) /\ SameGround(new(t), t)
             /\ new(t).player = NoOne /\ ~ new(t).pinned
  <2>1. t \in Tile /\ ids[t] \in FreshIds
    BY <1>1, <1>2, <1>3
  <2> QED
    BY <2>1, <1>6 DEF NewRow, Row, Tile, OffsetKey, SameGround
<1> HIDE DEF stay, new
<1>9. board' = {stay(r) : r \in kept} \cup {new(t) : t \in added}
  BY <1>1 DEF stay, new
<1>10. ASSUME NEW a \in board' PROVE \/ \E r \in kept : a = stay(r)
                                     \/ \E t \in added : a = new(t)
  BY <1>9
<1>11. board' \subseteq Row
  BY <1>7, <1>8, <1>10
<1>12. ASSUME NEW a \in board', NEW b \in board', OffsetKey(a) = OffsetKey(b) PROVE a = b
  <2>1. ASSUME NEW r \in kept, NEW s \in kept, a = stay(r), b = stay(s) PROVE a = b
    BY <2>1, <1>2, <1>3, <1>7, <1>12, RowKeyIdentifies
  <2>2. ASSUME NEW t \in added, NEW u \in added, a = new(t), b = new(u) PROVE a = b
    BY <2>2, <1>2, <1>3, <1>8, <1>12, KeyIdentifies
  <2>3. ASSUME NEW r \in kept, NEW t \in added PROVE ~ (a = stay(r) /\ b = new(t)) /\ ~ (b = stay(r) /\ a = new(t))
    BY <2>3, <1>3, <1>5, <1>7, <1>8, <1>12
  <2> QED
    BY <2>1, <2>2, <2>3, <1>10
<1>13. ApartFrom(board')
  <2>1. \A a \in board' : \E t \in layout : SameGround(a, t)
    BY <1>3, <1>4, <1>7, <1>8, <1>10
  <2>2. ASSUME NEW a \in board', NEW b \in board', NEW t \in layout, SameGround(a, t), SameGround(b, t)
        PROVE  a = b
    <3>1. OffsetKey(a) = OffsetKey(b)
      BY <2>2 DEF SameGround, OffsetKey
    <3> QED
      BY <3>1, <1>12
  <2> QED
    BY <2>1, <2>2, <1>2, ApartSameGround
<1>14. ASSUME NEW a \in board', NEW b \in board', a.slot = b.slot PROVE a = b
  <2>1. ASSUME NEW r \in kept, NEW s \in kept, a = stay(r), b = stay(s) PROVE a = b
    BY <2>1, <1>2, <1>3, <1>7, <1>14
  <2>2. ASSUME NEW t \in added, NEW u \in added, a = new(t), b = new(u) PROVE a = b
    BY <2>2, <1>1, <1>8, <1>14
  <2>3. ASSUME NEW r \in kept, NEW t \in added PROVE ~ (a = stay(r) /\ b = new(t)) /\ ~ (b = stay(r) /\ a = new(t))
    BY <2>3, <1>3, <1>6, <1>7, <1>8, <1>14
  <2> QED
    BY <2>1, <2>2, <2>3, <1>10
<1>15. ASSUME NEW a \in board', NEW b \in board', a.player = b.player, a.player # NoOne PROVE a = b
  <2>1. PICK r \in kept : a = stay(r)
    BY <1>8, <1>10, <1>15
  <2>2. PICK s \in kept : b = stay(s)
    BY <1>8, <1>10, <1>15
  <2>3. r.player = s.player /\ r.player # NoOne /\ r \in board /\ s \in board
    BY <2>1, <2>2, <1>3, <1>7, <1>15
  <2> QED
    BY <2>1, <2>2, <2>3, <1>2
<1>16. \A a \in board' : a.pinned => a.player # NoOne
  BY <1>7, <1>8, <1>10
<1>17. BoardSound'
  BY <1>11, <1>13, <1>14, <1>15, <1>16 DEF BoardSound
<1>18. IsFiniteSet(board')
  <2>1. IsFiniteSet(kept) /\ IsFiniteSet(added)
    BY <1>2, <1>3, FS_Subset
  <2> DEFINE f == [r \in kept |-> stay(r)]
             g == [t \in added |-> new(t)]
  <2>2. {f[r] : r \in kept} = {stay(r) : r \in kept} /\ {g[t] : t \in added} = {new(t) : t \in added}
    OBVIOUS
  <2> HIDE DEF f, g
  <2>3. IsFiniteSet({f[r] : r \in kept}) /\ IsFiniteSet({g[t] : t \in added})
    BY <2>1, FiniteImage
  <2> QED
    BY <2>2, <2>3, <1>9, FS_Union
<1>19. GroundKept
  <2> SUFFICES ASSUME NEW b \in board' PROVE \/ \E c \in board : b.slot = c.slot /\ OffsetKey(b) = OffsetKey(c)
                                             \/ b.slot \in FreshIds
    BY DEF GroundKept
  <2> QED
    BY <1>3, <1>7, <1>8, <1>10
<1> QED
  BY <1>17, <1>18, <1>19

-----------------------------------------------------------------------------
\* The people call: the ground stays, and each row's people are the plan's.
LEMMA SeatsLand ==
  ASSUME BoardInv, NEW plan, OnlySeats(plan),
         \A s, t \in DOMAIN plan : plan[s].player = plan[t].player /\ plan[s].player # NoOne => s = t,
         AssignSlots(plan)
  PROVE  /\ BoardSound' /\ IsFiniteSet(board)' /\ GroundKept
         /\ \A r \in board' : r.player # NoOne =>
              \E b \in board : /\ r.slot = b.slot /\ OffsetKey(r) = OffsetKey(b) /\ b.slot \in DOMAIN plan
                               /\ plan[b.slot].player = r.player /\ plan[b.slot].pinned = r.pinned
<1> DEFINE who(r) == IF r.slot \in DOMAIN plan THEN plan[r.slot].player ELSE NoOne
           pin(r) == IF r.slot \in DOMAIN plan /\ plan[r.slot].player # NoOne THEN plan[r.slot].pinned ELSE FALSE
           seat(r) == [r EXCEPT !.player = who(r), !.pinned = pin(r)]
<1>1. /\ board \subseteq Row /\ ApartFrom(board) /\ IsFiniteSet(board)
      /\ \A r, s \in board : r.slot = s.slot => r = s
  BY DEF BoardInv, BoardSound
<1>2. ASSUME NEW r \in board
      PROVE  seat(r) = IF r.slot \in DOMAIN plan
                       THEN [r EXCEPT !.player = plan[r.slot].player,
                                      !.pinned = plan[r.slot].pinned /\ plan[r.slot].player # NoOne]
                       ELSE [r EXCEPT !.player = NoOne, !.pinned = FALSE]
  <2>1. CASE r.slot \in DOMAIN plan
    <3>1. plan[r.slot].pinned \in BOOLEAN
      BY <2>1 DEF OnlySeats, Seating
    <3>2. pin(r) = (plan[r.slot].pinned /\ plan[r.slot].player # NoOne) /\ who(r) = plan[r.slot].player
      BY <3>1, <2>1
    <3> HIDE DEF who, pin
    <3> QED
      BY <3>2, <2>1
  <2>2. CASE r.slot \notin DOMAIN plan
    BY <2>2
  <2> QED
    BY <2>1, <2>2
<1>3. board' = {seat(r) : r \in board}
  <2> HIDE DEF seat
  <2> QED
    BY <1>2 DEF AssignSlots
<1>4. ASSUME NEW r \in board PROVE who(r) \in Players \cup {NoOne} /\ pin(r) \in BOOLEAN /\ (pin(r) => who(r) # NoOne)
  BY DEF OnlySeats, Seating
<1>5. \A r, s \in board : who(r) = who(s) /\ who(r) # NoOne => r = s
  BY <1>1
<1>6. \A r \in board : who(r) # NoOne => /\ r.slot \in DOMAIN plan /\ plan[r.slot].player = who(r)
                                         /\ plan[r.slot].pinned = pin(r)
  OBVIOUS
<1> HIDE DEF who, pin
<1>7. ASSUME NEW r \in board
      PROVE  /\ seat(r) \in Row /\ seat(r).slot = r.slot /\ OffsetKey(seat(r)) = OffsetKey(r)
             /\ SameGround(seat(r), r) /\ seat(r).player = who(r) /\ seat(r).pinned = pin(r)
  <2>1. r \in Row /\ who(r) \in Players \cup {NoOne} /\ pin(r) \in BOOLEAN
    BY <1>1, <1>4
  <2>2. seat(r) = [r EXCEPT !.player = who(r), !.pinned = pin(r)]
    OBVIOUS
  <2> HIDE DEF seat
  <2> QED
    BY <2>1, <2>2 DEF Row, OffsetKey, SameGround
<1> HIDE DEF seat
<1>8. ASSUME NEW a \in board' PROVE \E r \in board : a = seat(r)
  BY <1>3
<1>9. ApartFrom(board')
  <2>1. \A a \in board' : \E r \in board : SameGround(a, r)
    BY <1>7, <1>8
  <2>2. ASSUME NEW a \in board', NEW b \in board', NEW r \in board, SameGround(a, r), SameGround(b, r)
        PROVE  a = b
    <3>1. PICK p \in board : a = seat(p)
      BY <1>8
    <3>2. PICK q \in board : b = seat(q)
      BY <1>8
    <3>3. OffsetKey(p) = OffsetKey(a) /\ OffsetKey(q) = OffsetKey(b) /\ OffsetKey(a) = OffsetKey(b)
      BY <3>1, <3>2, <2>2, <1>7 DEF SameGround, OffsetKey
    <3> QED
      BY <3>1, <3>2, <3>3, <1>1, RowKeyIdentifies
  <2> QED
    BY <2>1, <2>2, <1>1, ApartSameGround
<1>10. BoardSound'
  BY <1>1, <1>4, <1>5, <1>7, <1>8, <1>9 DEF BoardSound
<1>11. IsFiniteSet(board')
  <2> DEFINE f == [r \in board |-> seat(r)]
  <2>1. {f[r] : r \in board} = board'
    BY <1>3
  <2> HIDE DEF f
  <2> QED
    BY <2>1, <1>1, FiniteImage
<1>12. GroundKept
  BY <1>7, <1>8 DEF GroundKept
<1>13. \A r \in board' : r.player # NoOne =>
         \E b \in board : /\ r.slot = b.slot /\ OffsetKey(r) = OffsetKey(b) /\ b.slot \in DOMAIN plan
                          /\ plan[b.slot].player = r.player /\ plan[b.slot].pinned = r.pinned
  BY <1>6, <1>7, <1>8
<1> QED
  BY <1>10, <1>11, <1>12, <1>13

-----------------------------------------------------------------------------
(* What a call to the board leaves of the plans in flight.                 *)

\* No id the board gives out is one a screen or a call in flight knows.
LEMMA FreshUnknown ==
  ASSUME NEW id \in FreshIds
  PROVE  /\ id \in SlotIds
         /\ \A r \in slots : r.slot # id
         /\ save.phase \in {"place", "people"} => id \notin DOMAIN save.plan
BY DEF FreshIds, HeldSlots, LiveSlots

LEMMA SeenGroundKept ==
  ASSUME IdsNameOneGround, GroundKept, UNCHANGED slots
  PROVE  IdsNameOneGround'
<1> SUFFICES ASSUME NEW r \in slots, NEW b \in board', r.slot = b.slot
             PROVE  OffsetKey(r) = OffsetKey(b)
  BY DEF IdsNameOneGround
<1>1. PICK c \in board : b.slot = c.slot /\ OffsetKey(b) = OffsetKey(c)
  BY FreshUnknown DEF GroundKept
<1> QED
  BY <1>1 DEF IdsNameOneGround

LEMMA PlansKept ==
  ASSUME PlacePlanHolds, PeoplePlanHolds, GroundKept, UNCHANGED save
  PROVE  PlacePlanHolds' /\ PeoplePlanHolds'
<1>1. PlacePlanHolds'
  <2> SUFFICES ASSUME save.phase = "place", NEW b \in board', b.slot \in DOMAIN save.plan
               PROVE  save.plan[b.slot] = IF OffsetKey(b) \in DOMAIN save.carried
                                          THEN save.carried[OffsetKey(b)] ELSE Nobody
    BY DEF PlacePlanHolds
  <2>1. PICK c \in board : b.slot = c.slot /\ OffsetKey(b) = OffsetKey(c)
    BY FreshUnknown DEF GroundKept
  <2> QED
    BY <2>1 DEF PlacePlanHolds
<1>2. PeoplePlanHolds'
  <2> SUFFICES ASSUME save.phase = "people"
               PROVE  /\ DOMAIN save.plan = IdsOf(save.seen)
                      /\ \A b \in board', s \in save.seen : b.slot = s.slot => OffsetKey(b) = OffsetKey(s)
    BY DEF PeoplePlanHolds
  <2>1. DOMAIN save.plan = IdsOf(save.seen)
    BY DEF PeoplePlanHolds
  <2>2. ASSUME NEW b \in board', NEW s \in save.seen, b.slot = s.slot PROVE OffsetKey(b) = OffsetKey(s)
    <3>1. b.slot \in DOMAIN save.plan
      BY <2>1, <2>2 DEF IdsOf
    <3>2. PICK c \in board : b.slot = c.slot /\ OffsetKey(b) = OffsetKey(c)
      BY <3>1, FreshUnknown DEF GroundKept
    <3> QED
      BY <2>2, <3>2 DEF PeoplePlanHolds
  <2> QED
    BY <2>1, <2>2
<1> QED
  BY <1>1, <1>2

\* No plan is held to anything once its call is over.
LEMMA NoPlan ==
  ASSUME save' = Idle
  PROVE  SaveTyped' /\ PlacePlanHolds' /\ PeoplePlanHolds'
BY DEF Idle, SaveTyped, PlacePlanHolds, PeoplePlanHolds

\* The editor sees nothing of a call until the board is read again.
LEMMA EditorUntouched ==
  ASSUME PlacesInv, IsFiniteSet(draft), UNCHANGED editorVars
  PROVE  PlacesInv' /\ IsFiniteSet(draft)' /\ UNCHANGED slots
<1>1. [Next]_editorVars /\ UNCHANGED <<draft, slots>>
  BY DEF editorVars
<1> QED
  BY <1>1, NextPlaces

-----------------------------------------------------------------------------
(* The officer's edits.                                                    *)

LEMMA FiniteLayout ==
  ASSUME NEW S, IsFiniteSet(S)
  PROVE  IsFiniteSet(Layout(S)) /\ IsFiniteSet(DraftFromBoard(S))
<1> DEFINE f == [t \in S |-> [t EXCEPT !.slot = NoSlot]]
           g == [r \in S |-> [dx |-> r.dx, dy |-> r.dy, spanX |-> r.spanX, spanY |-> r.spanY,
                              kind |-> r.kind, colour |-> r.colour, slot |-> r.slot]]
<1>1. Layout(S) = {f[t] : t \in S} /\ DraftFromBoard(S) = {g[r] : r \in S}
  BY DEF Layout, DraftFromBoard
<1> HIDE DEF f, g
<1> QED
  BY <1>1, FiniteImage

LEMMA MoveStaysFinite ==
  ASSUME IsFiniteSet(draft), NEW held, NEW to, Move(held, to)
  PROVE  IsFiniteSet(draft)' /\ UNCHANGED <<people, place>>
<1>1. CASE OffsetKey(held) \in selection
  <2> DEFINE x == to.x - AnchorShown.x - held.dx
             y == to.y - AnchorShown.y - held.dy
             byX == [held EXCEPT !.dx = to.x - AnchorShown.x, !.dy = to.y - AnchorShown.y].dx - held.dx
             byY == [held EXCEPT !.dx = to.x - AnchorShown.x, !.dy = to.y - AnchorShown.y].dy - held.dy
             f == [t \in Selected |-> ShiftedBy(t, byX, byY)]
  <2>1. MoveSelection(byX, byY)
    BY <1>1 DEF Move
  <2> HIDE DEF byX, byY
  <2>2. /\ draft' = (draft \ Selected) \cup {f[t] : t \in Selected}
        /\ UNCHANGED <<people, place>>
    BY <2>1 DEF MoveSelection
  <2> HIDE DEF f
  <2>3. IsFiniteSet(Selected) /\ IsFiniteSet(draft \ Selected)
    BY FS_Subset DEF Selected
  <2>4. IsFiniteSet({f[t] : t \in Selected})
    BY <2>3, FiniteImage
  <2> QED
    BY <2>2, <2>3, <2>4, FS_Union
<1>2. CASE OffsetKey(held) \notin selection
  <2> DEFINE landing == [held EXCEPT !.dx = to.x - AnchorShown.x, !.dy = to.y - AnchorShown.y]
  <2>1. draft' = (draft \ {held}) \cup {landing} /\ UNCHANGED <<people, place>>
    BY <1>2 DEF Move
  <2> HIDE DEF landing
  <2>2. IsFiniteSet(draft \ {held})
    BY FS_Subset
  <2> QED
    BY <2>1, <2>2, FS_AddElement
<1> QED
  BY <1>1, <1>2

LEMMA EditStaysFinite ==
  ASSUME PlacesInv, IsFiniteSet(draft), Edit
  PROVE  IsFiniteSet(draft)' /\ UNCHANGED slots
<1>1. ASSUME NEW at \in Square, PickUp(at) \/ PickDown(at) PROVE IsFiniteSet(draft)' /\ UNCHANGED slots
  <2>1. \/ draft' \subseteq draft
        \/ \E t : draft' = draft \cup {t}
    BY <1>1 DEF PickUp, PickDown
  <2>2. UNCHANGED slots
    BY <1>1 DEF PickUp, PickDown, place
  <2> QED
    BY <2>1, <2>2, FS_Subset, FS_AddElement
<1>2. ASSUME NEW held \in draft, NEW to \in Square, Move(held, to) PROVE IsFiniteSet(draft)' /\ UNCHANGED slots
  BY <1>2, MoveStaysFinite DEF place
<1>3. ASSUME NEW player \in Players, NEW at \in Square, DropMember(player, at)
      PROVE  IsFiniteSet(draft)' /\ UNCHANGED slots
  <2>1. \/ draft' = draft
        \/ \E t, u : draft' = (draft \ {t}) \cup {u}
        \/ \E u : draft' = draft \cup {u}
    BY <1>3, Zenon DEF DropMember
  <2>2. UNCHANGED slots
    BY <1>3 DEF DropMember, place
  <2>3. \A t : IsFiniteSet(draft \ {t})
    BY FS_Subset
  <2>4. ASSUME NEW t, NEW u, draft' = (draft \ {t}) \cup {u} PROVE IsFiniteSet(draft')
    BY <2>3, <2>4, FS_AddElement
  <2>5. ASSUME NEW u, draft' = draft \cup {u} PROVE IsFiniteSet(draft')
    BY <2>5, FS_AddElement
  <2> QED
    BY <2>1, <2>2, <2>4, <2>5
<1>4. ASSUME NEW shape \in Shapes, TemplateLoad(shape) PROVE IsFiniteSet(draft)' /\ UNCHANGED slots
  BY <1>4, FiniteLayout, BoardsAssumption DEF TemplateLoad, DraftFromTiles, place
<1>5. CASE Discard
  BY <1>5, FiniteLayout DEF Discard, Saved, PlacesInv, place
<1>6. CASE InTheTable
  BY <1>6 DEF InTheTable, ChooseFor, Vacate, TogglePin, EmptyEveryTile, UnpinEverything, Fill, PinWhere, place
<1> QED
  BY <1>1, <1>2, <1>3, <1>4, <1>5, <1>6 DEF Edit

-----------------------------------------------------------------------------
(* Each action of the two officers.                                        *)

LEMMA EditKeeps == ASSUME SaveInv, Edit PROVE SaveInv'
<1>1. UNCHANGED <<board, save>> /\ UNCHANGED slots /\ IsFiniteSet(draft)'
  BY EditStaysFinite DEF SaveInv, Edit
<1>2. PlacesInv'
  <2>1. \/ \E shape \in Shapes : TemplateLoad(shape)
        \/ Discard
        \/ OnTheMap \/ InTheTable
    BY DEF Edit, OnTheMap
  <2>2. Next
    BY <2>1 DEF Next, BesideTheMap
  <2> QED
    BY <2>2, NextPlaces DEF SaveInv
<1>3. BoardInv'
  BY <1>1 DEF SaveInv, BoardInv, BoardSound, IdsNameOneGround
<1>4. SaveTyped' /\ PlacePlanHolds' /\ PeoplePlanHolds'
  BY <1>1 DEF SaveInv, SaveTyped, PlacePlanHolds, PeoplePlanHolds
<1> QED
  BY <1>1, <1>2, <1>3, <1>4 DEF SaveInv

LEMMA ReadRow ==
  ASSUME NEW r \in Row
  PROVE  /\ VacateDeparted(r) \in Row /\ VacateDeparted(r).slot = r.slot
         /\ SameGround(VacateDeparted(r), r) /\ OffsetKey(VacateDeparted(r)) = OffsetKey(r)
         /\ VacateDeparted(r).player \in {r.player, NoOne}
BY DEF VacateDeparted, Row, SameGround, OffsetKey

LEMMA RefetchKeeps == ASSUME SaveInv, Refetch PROVE SaveInv'
<1>1. /\ board \subseteq Row /\ ApartFrom(board) /\ IsFiniteSet(board)
      /\ \A r, s \in board : r.slot = s.slot => r = s
      /\ \A r, s \in board : r.player = s.player /\ r.player # NoOne => r = s
  BY DEF SaveInv, BoardInv, BoardSound
<1>2. \A a \in AsRead : \E r \in board : a = VacateDeparted(r)
  BY DEF AsRead
<1>3. AsRead \subseteq Row
  BY <1>1, <1>2, ReadRow
<1>4. ApartFrom(AsRead)
  <2>1. \A a \in AsRead : \E r \in board : SameGround(a, r)
    BY <1>1, <1>2, ReadRow
  <2>2. ASSUME NEW a \in AsRead, NEW b \in AsRead, NEW r \in board, SameGround(a, r), SameGround(b, r)
        PROVE  a = b
    <3>1. PICK p \in board : a = VacateDeparted(p)
      BY <1>2
    <3>2. PICK q \in board : b = VacateDeparted(q)
      BY <1>2
    <3>3. OffsetKey(a) = OffsetKey(p) /\ OffsetKey(b) = OffsetKey(q)
      BY <3>1, <3>2, <1>1, ReadRow
    <3>4. OffsetKey(p) = OffsetKey(q)
      BY <3>3, <2>2 DEF SameGround, OffsetKey
    <3> QED
      BY <3>1, <3>2, <3>4, <1>1, RowKeyIdentifies
  <2> QED
    BY <2>1, <2>2, <1>1, ApartSameGround
<1>5. OwnPlaces(AsRead)
  <2>1. ASSUME NEW a \in AsRead, NEW b \in AsRead,
               a.slot = b.slot \/ (a.player = b.player /\ a.player # NoOne)
        PROVE  a = b
    <3>1. PICK p \in board : a = VacateDeparted(p)
      BY <1>2
    <3>2. PICK q \in board : b = VacateDeparted(q)
      BY <1>2
    <3>3. p.slot = q.slot \/ (p.player = q.player /\ p.player # NoOne)
      BY <3>1, <3>2, <2>1, <1>1, ReadRow
    <3> QED
      BY <3>1, <3>2, <3>3, <1>1
  <2>2. \A a, b \in AsRead : a.slot = b.slot => a = b
    BY <2>1
  <2>3. \A a, b \in AsRead : a.player = b.player /\ a.player # NoOne => a = b
    BY <2>1
  <2> QED
    BY <2>2, <2>3 DEF OwnPlaces
<1>6. IsFiniteSet(AsRead)
  <2> DEFINE f == [r \in board |-> VacateDeparted(r)]
  <2>1. AsRead = {f[r] : r \in board}
    BY DEF AsRead
  <2> HIDE DEF f
  <2> QED
    BY <2>1, <1>1, FiniteImage
<1>7. anchor \in Coordinate
  BY DEF SaveInv, PlacesInv, DraftInv
<1>8. BoardArrives(AsRead, anchor) /\ UNCHANGED <<board, save>>
  BY DEF Refetch
<1>9. PlacesInv'
  BY <1>3, <1>4, <1>5, <1>6, <1>7, <1>8, BoardArrivesPlaces DEF SaveInv
<1>10. slots' = AsRead /\ (draft' = draft \/ draft' = DraftFromBoard(AsRead))
  BY <1>8 DEF BoardArrives
<1>11. IsFiniteSet(draft)'
  BY <1>6, <1>10, FiniteLayout DEF SaveInv
<1>12. IdsNameOneGround'
  <2> SUFFICES ASSUME NEW a \in AsRead, NEW b \in board, a.slot = b.slot
               PROVE  OffsetKey(a) = OffsetKey(b)
    BY <1>8, <1>10 DEF IdsNameOneGround
  <2>1. PICK p \in board : a = VacateDeparted(p)
    BY <1>2
  <2> QED
    BY <2>1, <1>1, ReadRow
<1>13. BoardInv'
  BY <1>8, <1>12 DEF SaveInv, BoardInv, BoardSound
<1>14. SaveTyped' /\ PlacePlanHolds' /\ PeoplePlanHolds'
  BY <1>8 DEF SaveInv, SaveTyped, PlacePlanHolds, PeoplePlanHolds
<1> QED
  BY <1>9, <1>11, <1>13, <1>14 DEF SaveInv

LEMMA RosterKeeps == ASSUME SaveInv, RosterChanges PROVE SaveInv'
<1>1. /\ UNCHANGED <<draft, selection, tool, anchor, pendingAnchor, slots, people>>
      /\ UNCHANGED <<board, save>>
  BY DEF RosterChanges
<1>2. members' \subseteq Players
  BY DEF RosterChanges, SaveInv, PlacesInv, PlanTyped
<1>3. PlacesInv'
  BY <1>1, <1>2, RosterPlaces DEF SaveInv
<1>4. BoardInv' /\ IsFiniteSet(draft)'
  BY <1>1 DEF SaveInv, BoardInv, BoardSound, IdsNameOneGround
<1>5. SaveTyped' /\ PlacePlanHolds' /\ PeoplePlanHolds'
  BY <1>1 DEF SaveInv, SaveTyped, PlacePlanHolds, PeoplePlanHolds
<1> QED
  BY <1>3, <1>4, <1>5 DEF SaveInv

\* A call of somebody's that keeps the ground: the editor and what is in
\* flight are as they were.
LEMMA OthersCall ==
  ASSUME SaveInv, UNCHANGED <<editorVars, save>>, BoardSound', IsFiniteSet(board)', GroundKept
  PROVE  SaveInv'
<1>1. PlacesInv' /\ IsFiniteSet(draft)' /\ UNCHANGED slots
  BY EditorUntouched DEF SaveInv
<1>2. BoardInv'
  BY <1>1, SeenGroundKept DEF SaveInv, BoardInv
<1>3. PlacePlanHolds' /\ PeoplePlanHolds'
  BY PlansKept DEF SaveInv
<1>4. SaveTyped'
  BY DEF SaveInv, SaveTyped
<1> QED
  BY <1>1, <1>2, <1>3, <1>4 DEF SaveInv

\* The officer's own call, once it is over.
LEMMA OwnCallOver ==
  ASSUME SaveInv, UNCHANGED editorVars, save' = Idle, BoardSound', IsFiniteSet(board)', GroundKept
  PROVE  SaveInv'
<1>1. PlacesInv' /\ IsFiniteSet(draft)' /\ UNCHANGED slots
  BY EditorUntouched DEF SaveInv
<1>2. BoardInv'
  BY <1>1, SeenGroundKept DEF SaveInv, BoardInv
<1> QED
  BY <1>1, <1>2, NoPlan DEF SaveInv

LEMMA GroundStands ==
  ASSUME BoardInv, UNCHANGED board
  PROVE  BoardSound' /\ IsFiniteSet(board)' /\ GroundKept
BY DEF BoardInv, BoardSound, GroundKept

LEMMA LayoutOfDrawing ==
  ASSUME NEW S, S \subseteq Tile, ApartFrom(S), IsFiniteSet(S)
  PROVE  LayoutSound(Layout(S))
BY LayoutApart, FiniteLayout DEF LayoutSound

LEMMA OtherOfficerKeeps == ASSUME SaveInv, OtherOfficer PROVE SaveInv'
<1>1. UNCHANGED <<editorVars, save>>
  BY DEF OtherOfficer
<1>2. /\ board \subseteq Row /\ ApartFrom(board) /\ IsFiniteSet(board)
      /\ \A r, s \in board : r.slot = s.slot => r = s
      /\ \A r, s \in board : r.player = s.player /\ r.player # NoOne => r = s
  BY DEF SaveInv, BoardInv, BoardSound
<1>3. ASSUME NEW layout, LayoutSound(layout), SaveLayout(layout) PROVE SaveInv'
  BY <1>1, <1>3, LayoutLands, OthersCall DEF SaveInv
<1>4. ASSUME NEW r \in board, SaveLayout(Layout(DraftFromBoard(board \ {r}))) PROVE SaveInv'
  <2>1. board \ {r} \subseteq Row /\ ApartFrom(board \ {r}) /\ IsFiniteSet(board \ {r})
    BY <1>2, ApartSubset, FS_Subset
  <2>2. LayoutSound(Layout(DraftFromBoard(board \ {r})))
    BY <2>1, BoardDrawn, FiniteLayout, LayoutOfDrawing
  <2> QED
    BY <2>2, <1>4, <1>3
<1>5. ASSUME NEW at \in Square, NEW brush \in Brushes, NEW tile,
             tile = [dx |-> at.x - anchor.x, dy |-> at.y - anchor.y, spanX |-> brush.spanX,
                     spanY |-> brush.spanY, kind |-> brush.kind, colour |-> brush.colour, slot |-> NoSlot],
             CanPlace(board, tile), SaveLayout(Layout(DraftFromBoard(board)) \cup {tile})
      PROVE  SaveInv'
  <2> DEFINE drawn == Layout(DraftFromBoard(board))
  <2>1. LayoutSound(drawn)
    BY <1>2, BoardDrawn, FiniteLayout, LayoutOfDrawing
  <2>2. anchor.x \in Int /\ anchor.y \in Int /\ at.x \in Int /\ at.y \in Int /\ brush \in Brush
    BY EditorAssumption DEF SaveInv, PlacesInv, DraftInv, Coordinate, Square, Axis
  <2>3. tile \in Tile
    BY <2>2, <1>5 DEF Tile, Brush
  <2>4. \A t \in drawn : \E r \in board : SameGround(t, r)
    BY DEF Layout, DraftFromBoard, SameGround
  <2> HIDE DEF drawn
  <2>5. SameGround(tile, tile)
    BY DEF SameGround
  <2>6. CanPlace(drawn, tile)
    BY <2>4, <2>5, <1>5, OverlapOfGround DEF CanPlace
  <2>7. LayoutSound(drawn \cup {tile})
    BY <2>1, <2>3, <2>6, ApartAndOne, FS_AddElement DEF LayoutSound
  <2> QED
    BY <2>7, <1>5, <1>3 DEF drawn
<1>6. ASSUME NEW id \in {r.slot : r \in board}, NEW player \in members, NEW pin \in BOOLEAN, NEW plan,
             plan = [s \in IdsOf(board) |->
                       LET row == CHOOSE r \in board : r.slot = s
                       IN IF s = id THEN [player |-> player, pinned |-> pin]
                          ELSE IF row.player = player THEN Nobody
                          ELSE [player |-> row.player, pinned |-> row.pinned]],
             AssignSlots(plan)
      PROVE  SaveInv'
  <2> DEFINE row(s) == CHOOSE r \in board : r.slot = s
  <2>1. ASSUME NEW s \in IdsOf(board) PROVE row(s) \in board /\ row(s).slot = s
    <3>1. \E r \in board : r.slot = s
      BY DEF IdsOf
    <3> QED
      BY <3>1
  <2> HIDE DEF row
  <2>2. DOMAIN plan = IdsOf(board)
    BY <1>6
  <2>3. ASSUME NEW s \in IdsOf(board)
        PROVE  plan[s] = IF s = id THEN [player |-> player, pinned |-> pin]
                         ELSE IF row(s).player = player THEN Nobody
                         ELSE [player |-> row(s).player, pinned |-> row(s).pinned]
    BY <1>6 DEF row
  <2>4. player \in Players
    BY DEF SaveInv, PlacesInv, PlanTyped
  <2>5. OnlySeats(plan)
    <3>1. ASSUME NEW s \in IdsOf(board) PROVE plan[s] \in Seating
      <4>1. row(s).player \in Players \cup {NoOne} /\ row(s).pinned \in BOOLEAN
        BY <2>1, <1>2 DEF Row
      <4>2. /\ [player |-> player, pinned |-> pin] \in Seating /\ Nobody \in Seating
            /\ [player |-> row(s).player, pinned |-> row(s).pinned] \in Seating
        BY <4>1, <2>4 DEF Seating, Nobody
      <4> QED
        BY <4>2, <2>3
    <3> QED
      BY <2>2, <3>1 DEF OnlySeats
  <2>6. ASSUME NEW s \in IdsOf(board), NEW t \in IdsOf(board), plan[s].player = plan[t].player,
               plan[s].player # NoOne
        PROVE  s = t
    <3>1. ASSUME NEW u \in IdsOf(board), NEW r, r = row(u), plan[u].player # NoOne
          PROVE  \/ u = id /\ plan[u].player = player
                 \/ u # id /\ plan[u].player = r.player /\ r.player # player
      <4>1. plan[u] = IF u = id THEN [player |-> player, pinned |-> pin]
                      ELSE IF r.player = player THEN Nobody
                      ELSE [player |-> r.player, pinned |-> r.pinned]
        BY <2>3, <3>1
      <4>2. Nobody.player = NoOne
        BY DEF Nobody
      <4> HIDE DEF Nobody
      <4> QED
        BY <4>1, <4>2, <3>1
    <3> QED
      BY <3>1, <2>1, <2>6, <1>2
  <2> QED
    BY <1>1, <1>6, <2>2, <2>5, <2>6, SeatsLand, OthersCall DEF SaveInv
<1>7. {r.slot : r \in {b \in board : IsMemberBase(b)}} \subseteq {r.slot : r \in board}
  OBVIOUS
<1>8. CASE \E r \in board : SaveLayout(Layout(DraftFromBoard(board \ {r})))
  BY <1>8, <1>4
<1>9. CASE \E at \in Square, brush \in Brushes :
             LET tile == [dx |-> at.x - anchor.x, dy |-> at.y - anchor.y, spanX |-> brush.spanX,
                          spanY |-> brush.spanY, kind |-> brush.kind, colour |-> brush.colour, slot |-> NoSlot]
             IN /\ CanPlace(board, tile) /\ FitsOnMap(at, brush.spanX, brush.spanY)
                /\ SaveLayout(Layout(DraftFromBoard(board)) \cup {tile})
  BY <1>9, <1>5, Zenon
<1>10. CASE \E id \in {r.slot : r \in {b \in board : IsMemberBase(b)}}, player \in members, pin \in BOOLEAN :
              AssignSlots([s \in IdsOf(board) |->
                 LET row == CHOOSE r \in board : r.slot = s
                 IN IF s = id THEN [player |-> player, pinned |-> pin]
                    ELSE IF row.player = player THEN Nobody
                    ELSE [player |-> row.player, pinned |-> row.pinned]])
  <2>1. PICK id \in {r.slot : r \in {b \in board : IsMemberBase(b)}}, player \in members, pin \in BOOLEAN :
          AssignSlots([s \in IdsOf(board) |->
             LET row == CHOOSE r \in board : r.slot = s
             IN IF s = id THEN [player |-> player, pinned |-> pin]
                ELSE IF row.player = player THEN Nobody
                ELSE [player |-> row.player, pinned |-> row.pinned]])
    BY <1>10, Zenon
  <2>2. id \in {r.slot : r \in board}
    BY <1>7
  <2> QED
    BY <2>1, <2>2, <1>6, Zenon
<1> QED
  BY <1>8, <1>9, <1>10, Zenon DEF OtherOfficer

LEMMA CarriedSeats ==
  ASSUME PlacesInv
  PROVE  OnlySeats(PlacementsOf(draft))
<1> DEFINE manned == {t \in draft : t.slot # NoSlot /\ assignments[t.slot] # NoOne}
           tileAt(key) == CHOOSE t \in manned : OffsetKey(t) = key
<1>1. DOMAIN PlacementsOf(draft) = Keys(manned)
  BY DEF PlacementsOf
<1>2. ASSUME NEW key \in Keys(manned)
      PROVE  PlacementsOf(draft)[key] = [player |-> assignments[tileAt(key).slot],
                                         pinned |-> pinned[tileAt(key).slot] = assignments[tileAt(key).slot]]
  BY <1>2 DEF PlacementsOf
<1>3. ASSUME NEW key \in Keys(manned) PROVE tileAt(key).slot \in SlotIds
  <2>1. \E t \in manned : OffsetKey(t) = key
    BY DEF Keys
  <2>2. tileAt(key) \in manned
    BY <2>1
  <2> QED
    BY <2>2 DEF PlacesInv, DraftInv, Tile
<1> HIDE DEF manned, tileAt
<1>4. ASSUME NEW key \in Keys(manned) PROVE PlacementsOf(draft)[key] \in Seating
  <2> DEFINE who == assignments[tileAt(key).slot]
             pin == (pinned[tileAt(key).slot] = assignments[tileAt(key).slot])
  <2>1. who \in Players \cup {NoOne} /\ pin \in BOOLEAN
    BY <1>3 DEF PlacesInv, PlanTyped
  <2>2. PlacementsOf(draft)[key] = [player |-> who, pinned |-> pin]
    BY <1>2
  <2> HIDE DEF who, pin
  <2> QED
    BY <2>1, <2>2 DEF Seating
<1> QED
  BY <1>1, <1>4 DEF OnlySeats

LEMMA ShapeSaveKeeps == ASSUME SaveInv, ShapeSave PROVE SaveInv'
<1>1. /\ save' = [phase |-> "shape", layout |-> Layout(draft), carried |-> PlacementsOf(draft)]
      /\ UNCHANGED <<editorVars, board>>
  BY DEF ShapeSave, server
<1>2. PlacesInv' /\ IsFiniteSet(draft)' /\ UNCHANGED slots
  BY <1>1, EditorUntouched DEF SaveInv
<1>3. BoardInv'
  BY <1>1, <1>2 DEF SaveInv, BoardInv, BoardSound, IdsNameOneGround
<1>4. LayoutSound(Layout(draft))
  BY LayoutOfDrawing DEF SaveInv, PlacesInv, DraftInv, NoSharedGround
<1>5. OnlySeats(PlacementsOf(draft))
  BY CarriedSeats DEF SaveInv
<1>6. SaveTyped'
  BY <1>1, <1>4, <1>5 DEF SaveTyped
<1>7. PlacePlanHolds' /\ PeoplePlanHolds'
  BY <1>1 DEF PlacePlanHolds, PeoplePlanHolds
<1> QED
  BY <1>2, <1>3, <1>6, <1>7 DEF SaveInv

LEMMA ShapeLandsKeeps == ASSUME SaveInv, ShapeLands PROVE SaveInv'
<1>1. /\ save.phase = "shape" /\ SaveLayout(save.layout) /\ UNCHANGED editorVars
      /\ save'.phase = "read" /\ save'.carried = save.carried
  BY DEF ShapeLands
<1>2. LayoutSound(save.layout) /\ OnlySeats(save.carried)
  BY <1>1 DEF SaveInv, SaveTyped
<1>3. BoardSound' /\ IsFiniteSet(board)' /\ GroundKept
  BY <1>1, <1>2, LayoutLands DEF SaveInv
<1>4. PlacesInv' /\ IsFiniteSet(draft)' /\ UNCHANGED slots
  BY <1>1, EditorUntouched DEF SaveInv
<1>5. BoardInv'
  BY <1>3, <1>4, SeenGroundKept DEF SaveInv, BoardInv
<1>6. SaveTyped' /\ PlacePlanHolds' /\ PeoplePlanHolds'
  BY <1>1, <1>2 DEF SaveTyped, PlacePlanHolds, PeoplePlanHolds
<1> QED
  BY <1>4, <1>5, <1>6 DEF SaveInv

LEMMA ReadBackKeeps == ASSUME SaveInv, ReadBack PROVE SaveInv'
<1> DEFINE row(id) == CHOOSE r \in board : r.slot = id
           seat(r) == IF OffsetKey(r) \in DOMAIN save.carried THEN save.carried[OffsetKey(r)] ELSE Nobody
           plan == [id \in IdsOf(board) |-> seat(row(id))]
<1>1. /\ save.phase = "read" /\ UNCHANGED <<editorVars, board>>
      /\ save'.phase = "place" /\ save'.carried = save.carried /\ save'.plan = plan
  BY DEF ReadBack, server
<1>2. ASSUME NEW b \in board PROVE b.slot \in IdsOf(board) /\ row(b.slot) = b
  <2>1. \A r, s \in board : r.slot = s.slot => r = s
    BY DEF SaveInv, BoardInv, BoardSound
  <2> QED
    BY <2>1 DEF IdsOf
<1>3. ASSUME NEW r PROVE seat(r) \in Seating
  <2>1. OnlySeats(save.carried)
    BY <1>1 DEF SaveInv, SaveTyped
  <2>2. Nobody \in Seating
    BY DEF Nobody, Seating
  <2> QED
    BY <2>1, <2>2 DEF OnlySeats
<1>4. PlacesInv' /\ IsFiniteSet(draft)' /\ UNCHANGED slots
  BY <1>1, EditorUntouched DEF SaveInv
<1>5. BoardInv'
  BY <1>1, <1>4 DEF SaveInv, BoardInv, BoardSound, IdsNameOneGround
<1>6. SaveTyped'
  <2> HIDE DEF row, seat
  <2>1. OnlySeats(plan)
    BY <1>3 DEF OnlySeats
  <2> HIDE DEF plan
  <2>2. OnlySeats(save.carried)
    BY <1>1 DEF SaveInv, SaveTyped
  <2> QED
    BY <1>1, <2>1, <2>2 DEF SaveTyped
<1>7. PlacePlanHolds'
  <2> HIDE DEF seat
  <2>1. ASSUME NEW b \in board PROVE plan[b.slot] = seat(b)
    BY <1>2
  <2> HIDE DEF plan
  <2>2. \A b \in board' : b.slot \in DOMAIN save'.plan => save'.plan[b.slot] = seat(b)
    BY <1>1, <2>1
  <2> QED
    BY <2>2, <1>1 DEF PlacePlanHolds, seat
<1>8. PeoplePlanHolds'
  BY <1>1 DEF PeoplePlanHolds
<1> QED
  BY <1>4, <1>5, <1>6, <1>7, <1>8 DEF SaveInv

\* An accepted assignment keeps the board, and puts people where it says.
LEMMA SeatsAccepted ==
  ASSUME SaveInv, save.phase \in {"place", "people"}, AssignAccepts(save.plan), AssignSlots(save.plan)
  PROVE  /\ BoardSound' /\ IsFiniteSet(board)' /\ GroundKept
         /\ \A r \in board' : r.player # NoOne =>
              \E b \in board : /\ r.slot = b.slot /\ OffsetKey(r) = OffsetKey(b) /\ b.slot \in DOMAIN save.plan
                               /\ save.plan[b.slot].player = r.player /\ save.plan[b.slot].pinned = r.pinned
<1>1. OnlySeats(save.plan) /\ BoardInv
  BY DEF SaveInv, SaveTyped
<1>2. \A s, t \in DOMAIN save.plan : save.plan[s].player = save.plan[t].player /\ save.plan[s].player # NoOne => s = t
  BY DEF AssignAccepts
<1> DEFINE plan == save.plan
<1>3. /\ OnlySeats(plan) /\ AssignSlots(plan)
      /\ \A s, t \in DOMAIN plan : plan[s].player = plan[t].player /\ plan[s].player # NoOne => s = t
  BY <1>1, <1>2
<1> HIDE DEF plan
<1>4. /\ BoardSound' /\ IsFiniteSet(board)' /\ GroundKept
      /\ \A r \in board' : r.player # NoOne =>
           \E b \in board : /\ r.slot = b.slot /\ OffsetKey(r) = OffsetKey(b) /\ b.slot \in DOMAIN plan
                            /\ plan[b.slot].player = r.player /\ plan[b.slot].pinned = r.pinned
  BY <1>1, <1>3, SeatsLand
<1> QED
  BY <1>4 DEF plan

LEMMA SeatsLandKeeps == ASSUME SaveInv, PlaceLands \/ PeopleLand PROVE SaveInv'
<1>1. /\ save.phase \in {"place", "people"} /\ AssignAccepts(save.plan) /\ AssignSlots(save.plan)
      /\ save' = Idle /\ UNCHANGED editorVars
  BY DEF PlaceLands, PeopleLand
<1> QED
  BY <1>1, SeatsAccepted, OwnCallOver

LEMMA PeopleSaveKeeps == ASSUME SaveInv, PeopleSave PROVE SaveInv'
<1> DEFINE plan == [id \in IdsOf(slots) |-> [player |-> assignments[id], pinned |-> pinned[id] # NoOne]]
<1>1. /\ save'.phase = "people" /\ save'.seen = slots /\ save'.plan = plan
      /\ UNCHANGED <<editorVars, board>>
  BY DEF PeopleSave, server
<1>2. PlacesInv' /\ IsFiniteSet(draft)' /\ UNCHANGED slots
  BY <1>1, EditorUntouched DEF SaveInv
<1>3. BoardInv'
  BY <1>1, <1>2 DEF SaveInv, BoardInv, BoardSound, IdsNameOneGround
<1>4. OnlySeats(plan) /\ DOMAIN plan = IdsOf(slots)
  <2>1. IdsOf(slots) \subseteq SlotIds
    BY DEF IdsOf, SaveInv, PlacesInv, DraftInv, Row
  <2>2. \A id \in IdsOf(slots) : assignments[id] \in Players \cup {NoOne}
    BY <2>1 DEF SaveInv, PlacesInv, PlanTyped
  <2>3. \A id \in IdsOf(slots) : plan[id] \in Seating
    BY <2>2 DEF Seating
  <2> QED
    BY <2>3 DEF OnlySeats
<1> HIDE DEF plan
<1>5. SaveTyped'
  BY <1>1, <1>4 DEF SaveTyped
<1>6. PlacePlanHolds' /\ PeoplePlanHolds'
  <2>1. \A b \in board, s \in slots : b.slot = s.slot => OffsetKey(b) = OffsetKey(s)
    BY DEF SaveInv, BoardInv, IdsNameOneGround
  <2> QED
    BY <1>1, <1>4, <2>1 DEF PlacePlanHolds, PeoplePlanHolds
<1> QED
  BY <1>2, <1>3, <1>5, <1>6 DEF SaveInv

LEMMA SaveFailsKeeps == ASSUME SaveInv, SaveFails PROVE SaveInv'
<1>1. save' = Idle /\ UNCHANGED editorVars
  BY DEF SaveFails
<1>2. CASE save.phase = "shape" /\ SaveLayout(save.layout)
  BY <1>1, <1>2, LayoutLands, OwnCallOver DEF SaveInv, SaveTyped
<1>3. CASE save.phase \in {"place", "people"} /\ AssignAccepts(save.plan) /\ AssignSlots(save.plan)
  BY <1>1, <1>3, SeatsAccepted, OwnCallOver
<1>4. CASE UNCHANGED board
  BY <1>1, <1>4, GroundStands, OwnCallOver DEF SaveInv
<1> QED
  BY <1>2, <1>3, <1>4 DEF SaveFails

-----------------------------------------------------------------------------
(* The theorems.                                                           *)

LEMMA SaveInitInv == ASSUME SaveInit PROVE SaveInv
<1>1. PlacesInv
  BY InitPlaces DEF SaveInit
<1>2. slots \in Boards /\ draft = DraftFromBoard(slots) /\ board = slots /\ save = Idle
  BY DEF SaveInit, Init
<1>3. IsFiniteSet(draft)
  BY <1>2, FiniteLayout, BoardsAssumption
<1>4. BoardInv
  BY <1>1, <1>2, BoardsAssumption
  DEF BoardInv, BoardSound, IdsNameOneGround, PlacesInv, DraftInv, OwnPlaces
<1>5. SaveTyped /\ PlacePlanHolds /\ PeoplePlanHolds
  BY <1>2 DEF Idle, SaveTyped, PlacePlanHolds, PeoplePlanHolds
<1> QED
  BY <1>1, <1>3, <1>4, <1>5 DEF SaveInv

LEMMA SaveStep == ASSUME SaveInv, [SaveNext]_saveVars PROVE SaveInv'
<1>1. CASE UNCHANGED saveVars
  BY <1>1, GroundStands, OthersCall DEF saveVars, SaveInv
<1>2. CASE SaveNext
  BY <1>2, EditKeeps, RefetchKeeps, OtherOfficerKeeps, RosterKeeps, ShapeSaveKeeps, ShapeLandsKeeps,
     ReadBackKeeps, SeatsLandKeeps, PeopleSaveKeeps, SaveFailsKeeps DEF SaveNext
<1> QED
  BY <1>1, <1>2

\* Whatever two officers save, fail to save and read again, nobody is drawn on
\* two tiles, the board keeps its keys, and an id never comes to name other
\* ground than the board has it on (0165, 0177).
THEOREM BoardStaysSound == SaveSpec => []BoardAndDraftSound
<1>1. SaveInit => SaveInv
  BY SaveInitInv
<1>2. SaveInv /\ [SaveNext]_saveVars => SaveInv'
  BY SaveStep
<1>3. SaveInv => BoardAndDraftSound
  BY PlacesInvIsEnough DEF SaveInv, BoardInv, BoardAndDraftSound
<1> QED
  BY <1>1, <1>2, <1>3, PTL DEF SaveSpec

\* A save that lands puts nobody on ground the officer did not put them on
\* (0177, FormationEditor's save).
THEOREM SavesSeatAsDrawn == SaveSpec => NobodyMisplaced
<1> DEFINE Placed == \A r \in board' : r.player # NoOne =>
                       /\ OffsetKey(r) \in DOMAIN save.carried
                       /\ save.carried[OffsetKey(r)] = [player |-> r.player, pinned |-> r.pinned]
           Seated == \A r \in board' : r.player # NoOne =>
                       \E s \in save.seen : /\ OffsetKey(s) = OffsetKey(r)
                                            /\ save.plan[s.slot].player = r.player
<1>1. SaveInit => SaveInv
  BY SaveInitInv
<1>2. SaveInv /\ [SaveNext]_saveVars => SaveInv'
  BY SaveStep
<1>3. ASSUME SaveInv, PlaceLands PROVE Placed
  <2> SUFFICES ASSUME NEW r \in board', r.player # NoOne
               PROVE  /\ OffsetKey(r) \in DOMAIN save.carried
                      /\ save.carried[OffsetKey(r)] = [player |-> r.player, pinned |-> r.pinned]
    OBVIOUS
  <2>1. save.phase = "place" /\ AssignAccepts(save.plan) /\ AssignSlots(save.plan)
    BY <1>3 DEF PlaceLands
  <2>2. PICK b \in board : /\ OffsetKey(r) = OffsetKey(b) /\ b.slot \in DOMAIN save.plan
                           /\ save.plan[b.slot].player = r.player /\ save.plan[b.slot].pinned = r.pinned
    BY <2>1, <1>3, SeatsAccepted
  <2>3. save.plan[b.slot] = IF OffsetKey(b) \in DOMAIN save.carried
                            THEN save.carried[OffsetKey(b)] ELSE Nobody
    BY <2>1, <2>2, <1>3 DEF SaveInv, PlacePlanHolds
  <2>4. save.plan[b.slot] \in Seating
    BY <2>1, <2>2, <1>3 DEF SaveInv, SaveTyped, OnlySeats
  <2>5. save.plan[b.slot] = [player |-> r.player, pinned |-> r.pinned]
    BY <2>2, <2>4 DEF Seating
  <2>6. OffsetKey(b) \in DOMAIN save.carried
    BY <2>2, <2>3 DEF Nobody
  <2> QED
    BY <2>2, <2>3, <2>5, <2>6
<1>4. ASSUME SaveInv, PeopleLand PROVE Seated
  <2> SUFFICES ASSUME NEW r \in board', r.player # NoOne
               PROVE  \E s \in save.seen : OffsetKey(s) = OffsetKey(r) /\ save.plan[s.slot].player = r.player
    OBVIOUS
  <2>1. save.phase = "people" /\ AssignAccepts(save.plan) /\ AssignSlots(save.plan)
    BY <1>4 DEF PeopleLand
  <2>2. PICK b \in board : /\ OffsetKey(r) = OffsetKey(b) /\ b.slot \in DOMAIN save.plan
                           /\ save.plan[b.slot].player = r.player
    BY <2>1, <1>4, SeatsAccepted
  <2>3. /\ DOMAIN save.plan = IdsOf(save.seen)
        /\ \A s \in save.seen : b.slot = s.slot => OffsetKey(b) = OffsetKey(s)
    BY <2>1, <1>4 DEF SaveInv, PeoplePlanHolds
  <2>4. PICK s \in save.seen : s.slot = b.slot
    BY <2>2, <2>3 DEF IdsOf
  <2> QED
    BY <2>2, <2>3, <2>4
<1>5. SaveInv /\ [SaveNext]_saveVars => [(PlaceLands => Placed) /\ (PeopleLand => Seated)]_saveVars
  BY <1>3, <1>4
<1> QED
  BY <1>1, <1>2, <1>5, PTL DEF SaveSpec, NobodyMisplaced

-----------------------------------------------------------------------------
(* The invariant.                                                          *)

Place == [column : Int, row : Int]
Press == [phase : {"up", "down", "released"}, how : {"left", "ctrl", "middle"},
          cell : Place, strayed : BOOLEAN]

Hands ==
  [kind : {"pan"}, cell : Place, moved : BOOLEAN, modifier : BOOLEAN]
  \cup [kind : {"region"}, from : Coordinate, to : Coordinate]
  \cup [kind : {"anchor"}, to : Coordinate, moved : BOOLEAN, allowed : BOOLEAN]
  \cup [kind : {"drag"}, from : Coordinate, to : Coordinate, moved : BOOLEAN, allowed : BOOLEAN]

\* The window's centre and its radius are ones the map has.
ViewInv == picture \in Pictures /\ centre \in Square /\ radius \in Radii

\* A slide with the modifier or the middle button, and nothing else.
Slides == hand.kind = "pan" /\ hand.modifier

Edits == {"pick", "region", "anchor", "move", "member"}

AtMostOne == heard = <<>> \/ \E name \in Edits : heard = <<name>>

\* While it is down nothing has been called; between the release and its click
\* whatever was called swallows the click, and a slide does so without a call.
PressInv ==
  /\ press \in Press /\ AtMostOne /\ swallow \in BOOLEAN
  /\ incoming # NoHand => press.phase = "up"
  /\ press.phase = "down" =>
       hand \in Hands /\ heard = <<>> /\ (press.how # "left" => Slides)
  /\ press.phase = "released" =>
       /\ press.how # "middle"
       /\ heard # <<>> => swallow
       /\ press.how # "left" => heard = <<>> /\ swallow
  /\ press.phase = "up" =>
       (press.how # "left" => heard = <<>> \/ heard = <<"member">>)

GridInv == ViewInv /\ PressInv

-----------------------------------------------------------------------------
(* The window.                                                             *)

LEMMA OntoRange ==
  ASSUME NEW low \in Int, NEW high \in Int, low <= high, NEW v \in Int
  PROVE  Grid!Onto(low, high, v) \in low..high
BY DEF Grid!Onto, Grid!LesserOf, Grid!GreaterOf

\* Where the window starts for a centre on one axis of the map.
LEMMA SlideShows ==
  ASSUME NEW v \in Axis, radius \in Radii
  PROVE  /\ Grid!Slide(v) \in Int /\ Grid!Across = 2 * radius + 1 /\ radius \in Nat
         /\ MapMin <= Grid!Slide(v) /\ Grid!Slide(v) + Grid!Across - 1 <= MapMax
         /\ Grid!Slide(v) <= v /\ v <= Grid!Slide(v) + Grid!Across - 1
<1>1. radius \in Nat /\ 2 * radius <= MapMax - MapMin
  BY GridAssumption
<1>2. v \in Int /\ MapMin <= v /\ v <= MapMax
  BY DEF Axis
<1> QED
  BY <1>1, <1>2 DEF Grid!Slide, Grid!Across, Grid!LesserOf, Grid!GreaterOf

LEMMA WindowOnMap ==
  ASSUME ViewInv
  PROVE  /\ Grid!Window \in [x0 : Int, x1 : Int, y0 : Int, y1 : Int]
         /\ Grid!Covers(Grid!Window, centre)
         /\ Grid!Window.x0 >= MapMin /\ Grid!Window.x1 <= MapMax
         /\ Grid!Window.y0 >= MapMin /\ Grid!Window.y1 <= MapMax
<1>1. centre.x \in Axis /\ centre.y \in Axis /\ radius \in Radii
  BY DEF ViewInv, Square
<1>2. centre.x \in Int /\ centre.y \in Int
  BY <1>1 DEF Axis
<1> QED
  BY <1>1, <1>2, SlideShows DEF Grid!Window, Grid!Covers

LEMMA TileOnMap ==
  ASSUME ViewInv, NEW cell \in Place
  PROVE  Grid!TileUnder(cell) \in Square /\ Grid!TileUnder(cell) \in Coordinate
<1> DEFINE w == Grid!Window
<1>1. /\ w.x0 \in Int /\ w.x1 \in Int /\ w.y0 \in Int /\ w.y1 \in Int
      /\ w.x0 <= w.x1 /\ w.y0 <= w.y1
      /\ w.x0 >= MapMin /\ w.x1 <= MapMax /\ w.y0 >= MapMin /\ w.y1 <= MapMax
  <2>1. /\ w \in [x0 : Int, x1 : Int, y0 : Int, y1 : Int] /\ Grid!Covers(w, centre)
        /\ w.x0 >= MapMin /\ w.x1 <= MapMax /\ w.y0 >= MapMin /\ w.y1 <= MapMax
    BY WindowOnMap
  <2>2. centre.x \in Int /\ centre.y \in Int
    BY DEF ViewInv, Square, Axis
  <2> HIDE DEF w
  <2> QED
    BY <2>1, <2>2 DEF Grid!Covers
<1> DEFINE x == Grid!Onto(w.x0, w.x1, w.x0 + cell.column)
           y == Grid!Onto(w.y0, w.y1, w.y1 - cell.row)
<1>2. Grid!TileUnder(cell) = [x |-> x, y |-> y]
  BY DEF Grid!TileUnder
<1> HIDE DEF w
<1>3. w.x0 + cell.column \in Int /\ w.y1 - cell.row \in Int
  BY <1>1 DEF Place
<1>4. x \in w.x0..w.x1 /\ y \in w.y0..w.y1
  BY <1>1, <1>3, OntoRange
<1>5. x \in Axis /\ y \in Axis /\ x \in Int /\ y \in Int
  BY <1>1, <1>4 DEF Axis
<1> HIDE DEF x, y
<1> QED
  BY <1>2, <1>5 DEF Square, Coordinate

LEMMA PanOnMap ==
  ASSUME ViewInv, NEW byX \in Int, NEW byY \in Int
  PROVE  Grid!PannedCentre(byX, byY) \in Square
<1>1. centre.x \in Int /\ centre.y \in Int /\ MapMin <= MapMax
  BY DEF ViewInv, Square, Axis
<1>2. centre.x + byX \in Int /\ centre.y + byY \in Int
  BY <1>1
<1>3. /\ Grid!Onto(MapMin, MapMax, centre.x + byX) \in Axis
      /\ Grid!Onto(MapMin, MapMax, centre.y + byY) \in Axis
  BY <1>1, <1>2, OntoRange DEF Axis
<1> QED
  BY <1>3 DEF Grid!PannedCentre, Square

\* A notch of the wheel stays on the ladder: among the closer ones there is a
\* widest, among the wider ones a closest.
LEMMA ZoomOnLadder ==
  ASSUME radius \in Radii, NEW direction \in {1, -1}
  PROVE  Grid!ZoomStep(direction) \in Radii
<1> DEFINE beyond == {r \in Radii : IF direction = 1 THEN r < radius ELSE r > radius}
           nearest(r) == \A s \in beyond : IF direction = 1 THEN r >= s ELSE r <= s
<1>1. Grid!ZoomStep(direction) = IF beyond = {} THEN radius ELSE CHOOSE r \in beyond : nearest(r)
  BY DEF Grid!ZoomStep
<1>2. beyond \subseteq Radii /\ Radii \subseteq Nat
  BY GridAssumption
<1>3. ASSUME beyond # {} PROVE \E r \in beyond : nearest(r)
  <2>1. CASE direction = 1
    <3> DEFINE gaps == {radius - r : r \in beyond}
    <3>1. gaps \in SUBSET Nat /\ gaps # {}
      BY <1>2, <1>3, <2>1
    <3>2. PICK g \in gaps : \A h \in gaps : g <= h
      BY <3>1, LeastOfNats
    <3>3. PICK r \in beyond : g = radius - r
      BY <3>2
    <3>4. \A s \in beyond : radius - r <= radius - s
      BY <3>2, <3>3
    <3>5. \A s \in beyond : r >= s
      BY <3>4, <1>2
    <3> QED
      BY <3>5, <2>1
  <2>2. CASE direction # 1
    <3>1. PICK r \in beyond : \A s \in beyond : r <= s
      BY <1>2, <1>3, LeastOfNats, beyond \in SUBSET Nat
    <3> QED
      BY <3>1, <2>2
  <2> QED
    BY <2>1, <2>2
<1> HIDE DEF beyond, nearest
<1>4. CASE beyond = {}
  BY <1>1, <1>4
<1>5. CASE beyond # {}
  <2>1. (CHOOSE r \in beyond : nearest(r)) \in beyond
    BY <1>3, <1>5
  <2> QED
    BY <1>1, <1>2, <1>5, <2>1
<1> QED
  BY <1>4, <1>5

-----------------------------------------------------------------------------
(* One lemma per handler.                                                  *)

LEMMA CellsArePlaces ==
  ASSUME radius \in Radii
  PROVE  Grid!Cells \subseteq Place /\ Grid!Origin \in Place
<1>1. radius \in Nat /\ Reach \in Nat
  BY GridAssumption
<1> QED
  BY <1>1 DEF Grid!Cells, Grid!Across, Grid!Origin, Place

LEMMA Lifting ==
  ASSUME press \in Press, radius \in Radii
  PROVE  /\ Grid!Lifted \in Press /\ Grid!Lifted.phase = "up" /\ Grid!Lifted.how = press.how
BY CellsArePlaces DEF Grid!Lifted, Press

\* The window is as it was, and so is what is drawn.
LEMMA SameView == ASSUME ViewInv, UNCHANGED <<picture, centre, radius>> PROVE ViewInv'
BY DEF ViewInv

LEMMA SamePress ==
  ASSUME PressInv, UNCHANGED <<hand, swallow, incoming, press, heard>>
  PROVE  PressInv'
BY DEF PressInv, AtMostOne, Slides

LEMMA CalledOnce ==
  ASSUME NEW name \in Edits, heard = <<>>, Grid!Call(name)
  PROVE  heard' = <<name>>
BY DEF Grid!Call

LEMMA PointerDownGrid ==
  ASSUME GridInv, NEW cell \in Grid!Cells, NEW how \in {"left", "ctrl", "middle"}, Grid!PointerDown(cell, how)
  PROVE  GridInv'
<1> DEFINE tile == Grid!TileUnder(cell)
<1>1. cell \in Place /\ tile \in Coordinate /\ picture \in Pictures /\ ViewInv'
  BY CellsArePlaces, TileOnMap, SameView DEF GridInv, ViewInv, Grid!PointerDown, Grid!view
<1>2. /\ picture.anchor \in Coordinate
      /\ \A b \in picture.bases : b.at \in Coordinate
  BY <1>1, GridAssumption DEF Square, Axis, Coordinate
<1>3. /\ \A b \in picture.bases : Grid!Carry(b) \in Hands
      /\ Grid!Sweep(tile) \in Hands /\ Grid!CarryAnchor \in Hands
      /\ Grid!Slip(cell, TRUE) \in Hands /\ Grid!Slip(cell, FALSE) \in Hands
  <2> HIDE DEF tile
  <2> QED
    BY <1>1, <1>2 DEF Grid!Carry, Grid!Sweep, Grid!CarryAnchor, Grid!Slip, Hands
<1>4. hand' \in Grid!Begins(cell, how)
  BY DEF Grid!PointerDown
<1>5. CASE how # "left"
  <2>1. hand' = Grid!Slip(cell, TRUE)
    BY <1>4, <1>5 DEF Grid!Begins
  <2>2. hand'.kind = "pan" /\ hand'.modifier
    BY <2>1 DEF Grid!Slip
  <2> QED
    BY <1>1, <1>3, <2>1, <2>2 DEF GridInv, PressInv, Press, AtMostOne, Slides, Grid!PointerDown
<1>6. CASE how = "left"
  <2>1. Grid!BasesUnder(tile) \subseteq picture.bases
    BY DEF Grid!BasesUnder
  <2>2. hand' \in Hands
    BY <1>3, <1>4, <1>6, <2>1 DEF Grid!Begins
  <2> QED
    BY <1>1, <1>6, <2>2 DEF GridInv, PressInv, Press, AtMostOne, Slides, Grid!PointerDown
<1> QED
  BY <1>5, <1>6

LEMMA PointerMoveGrid ==
  ASSUME GridInv, NEW cell \in Grid!Cells, Grid!PointerMove(cell)
  PROVE  GridInv'
<1>1. /\ press.phase = "down" /\ hand \in Hands /\ heard = <<>> /\ press \in Press
      /\ press.how # "left" => Slides
      /\ UNCHANGED <<picture, radius, swallow, incoming, heard>>
  BY DEF GridInv, PressInv, Grid!PointerMove
<1>2. cell \in Place /\ Grid!TileUnder(cell) \in Coordinate
  BY CellsArePlaces, TileOnMap DEF GridInv, ViewInv
<1>3. /\ press' \in Press /\ press'.phase = "down" /\ press'.how = press.how
  <2>1. press' = [press EXCEPT !.strayed = @ \/ cell # press.cell]
    BY DEF Grid!PointerMove
  <2> QED
    BY <1>1, <2>1 DEF Press
<1>4. ASSUME hand' \in Hands, hand'.kind = hand.kind, hand.kind = "pan" => hand'.modifier = hand.modifier,
             centre' \in Square
      PROVE  GridInv'
  BY <1>1, <1>3, <1>4 DEF GridInv, ViewInv, PressInv, AtMostOne, Slides
<1>5. CASE Grid!StepPan(cell)
  <2>1. /\ hand.kind = "pan" /\ hand \in [kind : {"pan"}, cell : Place, moved : BOOLEAN, modifier : BOOLEAN]
    BY <1>1, <1>5 DEF Grid!StepPan, Hands
  <2>2. CASE UNCHANGED <<hand, centre>>
    BY <1>1, <2>1, <2>2, <1>4 DEF GridInv, ViewInv
  <2>3. CASE /\ hand' = [hand EXCEPT !.cell = cell, !.moved = TRUE]
             /\ centre' = Grid!PannedCentre(-(cell.column - hand.cell.column), cell.row - hand.cell.row)
    <3>1. /\ -(cell.column - hand.cell.column) \in Int /\ cell.row - hand.cell.row \in Int
      BY <1>2, <2>1 DEF Place
    <3>2. centre' \in Square
      BY <2>3, <3>1, PanOnMap DEF GridInv
    <3>3. /\ hand' \in [kind : {"pan"}, cell : Place, moved : BOOLEAN, modifier : BOOLEAN]
          /\ hand'.modifier = hand.modifier
      BY <1>2, <2>1, <2>3
    <3> QED
      BY <2>1, <3>2, <3>3, <1>4 DEF Hands
  <2>4. \/ UNCHANGED <<hand, centre>>
        \/ /\ hand' = [hand EXCEPT !.cell = cell, !.moved = TRUE]
           /\ centre' = Grid!PannedCentre(-(cell.column - hand.cell.column), cell.row - hand.cell.row)
    BY <1>5 DEF Grid!StepPan
  <2> QED
    BY <2>2, <2>3, <2>4
<1>6. CASE Grid!StretchRegion(cell)
  <2>1. hand.kind = "region" /\ hand \in [kind : {"region"}, from : Coordinate, to : Coordinate]
    BY <1>1, <1>6 DEF Grid!StretchRegion, Hands
  <2>2. hand' = [hand EXCEPT !.to = Grid!TileUnder(cell)] /\ UNCHANGED centre
    BY <1>6 DEF Grid!StretchRegion
  <2>3. hand' \in [kind : {"region"}, from : Coordinate, to : Coordinate]
    BY <1>2, <2>1, <2>2
  <2> QED
    BY <2>1, <2>2, <2>3, <1>4 DEF Hands, GridInv, ViewInv
<1>7. CASE Grid!CarryOn(cell)
  <2>0. hand.kind \in {"drag", "anchor"} /\ UNCHANGED centre
    BY <1>7 DEF Grid!CarryOn
  <2>1. PICK answer \in BOOLEAN :
           hand' = hand \/ hand' = [hand EXCEPT !.to = Grid!TileUnder(cell), !.moved = TRUE, !.allowed = answer]
    BY <1>7 DEF Grid!CarryOn
  <2>2. CASE hand.kind = "drag"
    <3>1. hand \in [kind : {"drag"}, from : Coordinate, to : Coordinate, moved : BOOLEAN, allowed : BOOLEAN]
      BY <1>1, <2>2 DEF Hands
    <3>2. hand' \in [kind : {"drag"}, from : Coordinate, to : Coordinate, moved : BOOLEAN, allowed : BOOLEAN]
      BY <1>2, <2>1, <3>1
    <3> QED
      BY <2>0, <2>2, <3>2, <1>4 DEF Hands, GridInv, ViewInv
  <2>3. CASE hand.kind = "anchor"
    <3>1. hand \in [kind : {"anchor"}, to : Coordinate, moved : BOOLEAN, allowed : BOOLEAN]
      BY <1>1, <2>3 DEF Hands
    <3>2. hand' \in [kind : {"anchor"}, to : Coordinate, moved : BOOLEAN, allowed : BOOLEAN]
      BY <1>2, <2>1, <3>1
    <3> QED
      BY <2>0, <2>3, <3>2, <1>4 DEF Hands, GridInv, ViewInv
  <2> QED
    BY <2>0, <2>2, <2>3
<1> QED
  BY <1>5, <1>6, <1>7 DEF Grid!PointerMove

LEMMA PointerUpGrid ==
  ASSUME GridInv, NEW cell \in Grid!Cells, Grid!PointerUp(cell)
  PROVE  GridInv'
<1>1. /\ press.phase = "down" /\ hand \in Hands /\ heard = <<>> /\ press \in Press /\ swallow \in BOOLEAN
      /\ press.how # "left" => Slides
      /\ incoming = NoHand /\ UNCHANGED <<picture, centre, radius, incoming>>
  BY DEF GridInv, PressInv, Grid!PointerUp, Grid!view
<1>2. ViewInv' /\ cell \in Place /\ radius \in Radii
  BY <1>1, SameView, CellsArePlaces DEF GridInv, ViewInv
<1>3. /\ press' \in Press /\ press'.how = press.how
      /\ press'.phase = IF press.how = "middle" THEN "up" ELSE "released"
  <2>1. press' = IF press.how = "middle" THEN Grid!Lifted
                 ELSE [press EXCEPT !.phase = "released", !.strayed = @ \/ cell # press.cell, !.cell = cell]
    BY DEF Grid!PointerUp
  <2>2. CASE press.how = "middle"
    BY <1>1, <1>2, <2>1, <2>2, Lifting
  <2>3. CASE press.how # "middle"
    BY <1>1, <1>2, <2>1, <2>3 DEF Press
  <2> QED
    BY <2>2, <2>3
<1>4. heard' = <<>> \/ \E name \in Edits : heard' = <<name>>
  <2>1. heard' = heard \/ \E name \in Edits : Grid!Call(name)
    <3>1. "region" \in Edits /\ "anchor" \in Edits /\ "move" \in Edits
      BY DEF Edits
    <3> QED
      BY <3>1 DEF Grid!PointerUp, Grid!EndPan, Grid!EndRegion, Grid!EndAnchor, Grid!EndDrag
  <2>2. ASSUME NEW name \in Edits, Grid!Call(name) PROVE heard' = <<name>>
    BY <1>1, <2>2, CalledOnce
  <2> QED
    BY <1>1, <2>1, <2>2
<1>5. swallow' \in BOOLEAN
  BY <1>1 DEF Grid!PointerUp, Grid!EndPan, Grid!EndRegion, Grid!EndAnchor, Grid!EndDrag, Hands
<1>6. heard' # <<>> => swallow'
  BY <1>1 DEF Grid!PointerUp, Grid!EndPan, Grid!EndRegion, Grid!EndAnchor, Grid!EndDrag, Hands
<1>7. press.how # "left" => heard' = <<>> /\ swallow'
  BY <1>1 DEF Grid!PointerUp, Grid!EndPan, Grid!EndRegion, Grid!EndAnchor, Grid!EndDrag, Slides
<1> QED
  BY <1>1, <1>2, <1>3, <1>4, <1>5, <1>6, <1>7 DEF GridInv, PressInv, AtMostOne

LEMMA PointerCancelGrid ==
  ASSUME GridInv, Grid!PointerCancel
  PROVE  GridInv'
<1>1. /\ press.phase = "down" /\ heard = <<>> /\ press \in Press /\ radius \in Radii
      /\ press' = Grid!Lifted
      /\ UNCHANGED <<picture, centre, radius, swallow, incoming, heard>>
  BY DEF GridInv, ViewInv, PressInv, Grid!PointerCancel, Grid!view
<1> QED
  BY <1>1, SameView, Lifting DEF GridInv, PressInv, AtMostOne

LEMMA ClickGrid ==
  ASSUME GridInv, Grid!Click
  PROVE  GridInv'
<1>1. /\ press.phase = "released" /\ press \in Press /\ radius \in Radii /\ AtMostOne
      /\ press' = Grid!Lifted /\ swallow' = FALSE
      /\ heard # <<>> => swallow
      /\ press.how # "left" => heard = <<>> /\ swallow
      /\ incoming = NoHand /\ UNCHANGED <<picture, centre, radius, incoming>>
  BY DEF GridInv, ViewInv, PressInv, Grid!Click, Grid!view
<1>2. press' \in Press /\ press'.phase = "up" /\ press'.how = press.how
  BY <1>1, Lifting
<1>3. CASE swallow
  <2>1. heard' = heard
    BY <1>3 DEF Grid!Click
  <2> QED
    BY <1>1, <1>2, <1>3, <2>1, SameView DEF GridInv, PressInv, AtMostOne
<1>4. CASE ~ swallow
  <2>1. heard = <<>> /\ press.how = "left" /\ Grid!Call("pick")
    BY <1>1, <1>4 DEF Grid!Click
  <2>2. "pick" \in Edits
    BY DEF Edits
  <2>3. heard' = <<"pick">>
    BY <2>1, <2>2, CalledOnce, Zenon
  <2>4. AtMostOne'
    BY <2>2, <2>3 DEF AtMostOne
  <2>5. ViewInv'
    BY <1>1, SameView DEF GridInv
  <2> QED
    BY <1>1, <1>2, <2>1, <2>4, <2>5 DEF GridInv, PressInv
<1> QED
  BY <1>3, <1>4

LEMMA KeyClickGrid ==
  ASSUME GridInv, Grid!KeyClick
  PROVE  GridInv'
<1>1. /\ press.phase = "up" /\ swallow' = FALSE
      /\ UNCHANGED <<picture, centre, radius, hand, incoming, press, heard>>
  BY DEF Grid!KeyClick, Grid!view
<1> QED
  BY <1>1, SameView DEF GridInv, PressInv, AtMostOne, Slides

LEMMA ZoomGrid ==
  ASSUME GridInv, NEW direction \in {1, -1}, NEW cell \in Grid!Cells, Grid!Zoom(direction, cell)
  PROVE  GridInv'
<1>1. /\ radius' = Grid!ZoomStep(direction) /\ centre' = Grid!TileUnder(cell)
      /\ UNCHANGED <<picture, hand, swallow, incoming, press, heard>>
  BY DEF Grid!Zoom
<1>2. radius \in Radii /\ ViewInv /\ cell \in Place
  BY CellsArePlaces DEF GridInv, ViewInv
<1>3. radius' \in Radii /\ centre' \in Square
  BY <1>1, <1>2, ZoomOnLadder, TileOnMap
<1> QED
  BY <1>1, <1>3, SamePress DEF GridInv, ViewInv

LEMMA MemberGrid ==
  ASSUME GridInv, \/ \E cell \in Grid!Cells : Grid!MemberOver(cell)
                  \/ Grid!MemberLeaves \/ Grid!MemberDropped
  PROVE  GridInv'
<1>1. UNCHANGED <<picture, centre, radius, hand, swallow, press>> /\ press.phase = "up"
  BY DEF GridInv, PressInv, Grid!MemberOver, Grid!MemberLeaves, Grid!MemberDropped, Grid!view
<1>2. heard' = heard \/ heard' = <<"member">>
  BY DEF Grid!MemberOver, Grid!MemberLeaves, Grid!MemberDropped
<1>3. ViewInv'
  BY <1>1, SameView DEF GridInv
<1>4. /\ AtMostOne' /\ press' \in Press /\ press'.phase = "up" /\ swallow' \in BOOLEAN
      /\ press'.how # "left" => heard' = <<>> \/ heard' = <<"member">>
  <2>1. "member" \in Edits
    BY DEF Edits
  <2> QED
    BY <1>1, <1>2, <2>1 DEF GridInv, PressInv, AtMostOne
<1> QED
  BY <1>3, <1>4 DEF GridInv, PressInv

LEMMA RedrawnGrid ==
  ASSUME GridInv, Grid!Redrawn
  PROVE  GridInv'
<1>1. PICK drawn \in Pictures :
         /\ picture' = drawn
         /\ centre' = IF drawn.anchor = picture.anchor THEN centre ELSE drawn.anchor
         /\ UNCHANGED <<radius, hand, swallow, incoming, press, heard>>
  BY DEF Grid!Redrawn
<1>2. drawn.anchor \in Square
  BY GridAssumption
<1>3. ViewInv'
  BY <1>1, <1>2 DEF GridInv, ViewInv
<1> QED
  BY <1>1, <1>3, SamePress DEF GridInv

LEMMA PointerGrid ==
  ASSUME GridInv, Grid!GridNext
  PROVE  GridInv'
BY PointerDownGrid, PointerMoveGrid, PointerUpGrid, PointerCancelGrid, ClickGrid, KeyClickGrid,
   ZoomGrid, MemberGrid, RedrawnGrid DEF Grid!GridNext

LEMMA InitGrid ==
  ASSUME ScreensInit
  PROVE  GridInv
<1>1. Grid!GridInit
  BY DEF ScreensInit
<1>2. picture.anchor \in Square
  BY <1>1, GridAssumption DEF Grid!GridInit
<1>3. ViewInv
  BY <1>1, <1>2 DEF Grid!GridInit, ViewInv
<1>4. press \in Press /\ press.phase = "up" /\ press.how = "left"
  BY <1>1 DEF Grid!GridInit, Press, Place, Grid!Origin
<1> QED
  BY <1>1, <1>3, <1>4 DEF Grid!GridInit, GridInv, PressInv, AtMostOne

LEMMA GridInvIsEnough ==
  ASSUME GridInv
  PROVE  PointerIsSound
<1>1. Grid!CentreIsShown
  BY WindowOnMap DEF GridInv, Grid!CentreIsShown
<1>2. AtMostOne
  BY DEF GridInv, PressInv
<1>3. Len(heard) <= 1
  <2>1. CASE heard = <<>>
    BY <2>1
  <2>2. ASSUME NEW name \in Edits, heard = <<name>> PROVE Len(heard) <= 1
    BY <2>2
  <2> QED
    BY <1>2, <2>1, <2>2 DEF AtMostOne
<1>4. Grid!SlidingEditsNothing
  <2> SUFFICES ASSUME press.how # "left", NEW i \in 1..Len(heard) PROVE heard[i] = "member"
    BY DEF Grid!SlidingEditsNothing
  <2>1. heard = <<>> \/ heard = <<"member">>
    BY DEF GridInv, PressInv, Press
  <2>2. CASE heard = <<>>
    BY <2>2
  <2>3. CASE heard = <<"member">>
    BY <2>3
  <2> QED
    BY <2>1, <2>2, <2>3
<1> QED
  BY <1>1, <1>3, <1>4 DEF PointerIsSound, Grid!OneEditPerPress

-----------------------------------------------------------------------------
(* The screens.                                                            *)

\* A press is one edit at most, a slide none, whatever the editor redraws, the
\* wheel turns or the system takes away meanwhile, and the map shown is on the
\* map and shows its centre (TileGrid's handlers).
THEOREM PointerStaysSound == ScreensSpec => []PointerIsSound
<1>1. ScreensInit => GridInv
  BY InitGrid
<1>2. GridInv /\ [Drawing \/ Pointer]_screensVars => GridInv'
  <2>1. CASE UNCHANGED pointerVars /\ GridInv
    BY <2>1, SameView, SamePress DEF pointerVars, GridInv
  <2> QED
    BY <2>1, PointerGrid DEF Drawing, Pointer, screensVars
<1>3. GridInv => PointerIsSound
  BY GridInvIsEnough
<1> QED
  BY <1>1, <1>2, <1>3, PTL DEF ScreensSpec

\* Each step of the screens is one of the editor's, or leaves it alone.
LEMMA ScreensAreEdited ==
  ASSUME [Drawing \/ Pointer]_screensVars
  PROVE  [Next]_editorVars
<1>1. CASE Drawing
  BY <1>1 DEF Drawing, DrawNext, Next
<1>2. CASE Pointer \/ UNCHANGED screensVars
  BY <1>2 DEF Pointer, screensVars, drawVars
<1> QED
  BY <1>1, <1>2

LEMMA ScreensEdit == ScreensSpec => Spec
<1>1. ScreensInit => Init
  BY DEF ScreensInit, DrawInit
<1>2. [Drawing \/ Pointer]_screensVars => [Next]_editorVars
  BY ScreensAreEdited
<1> QED
  BY <1>1, <1>2, PTL DEF ScreensSpec, Spec

\* No two tiles drawn share ground, on the screens (FormationEditor).
THEOREM ScreensDrawApart == ScreensSpec => []NoSharedGround
BY ScreensEdit, DrawnApart, PTL

\* A saved place is one tile's and a member stands on one (FormationEditor).
THEOREM ScreensKeepPlaces == ScreensSpec => []PlacesAreUnique
<1>1. TypeOK /\ OneTilePerSlot /\ OneTilePerMember => PlacesAreUnique
  BY DEF PlacesAreUnique
<1> QED
  BY <1>1, ScreensEdit, PlacesStayUnique, PTL

\* Drawing by hand stays on the map, and moving takes nobody off the drawing
\* (FormationEditor's pick and move).
THEOREM ScreensDrawFaithfully == ScreensSpec => DrawingIsFaithful
BY ScreensEdit, HandStaysOnMap, MovingKeepsAll DEF DrawingIsFaithful
=============================================================================
