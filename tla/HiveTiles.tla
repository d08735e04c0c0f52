------------------------------- MODULE HiveTiles -------------------------------
(***************************************************************************)
(* The geometry of a hive formation, apps/dashboard/src/lib/hiveFormation. *)
(* A tile is a rectangle of map squares named by one of them; formations   *)
(* hold tiles as offsets from an anchor.  The database's exclusion         *)
(* constraint states the same rule (migration 0169).                       *)
(***************************************************************************)
EXTENDS Integers, FiniteSets

CONSTANTS
  MapMin, MapMax,   \* first and last coordinate of the map, on both axes
  BaseSpan          \* squares a member's base takes on each side

ASSUME MapAssumption ==
  /\ MapMin \in Int /\ MapMax \in Int
  /\ BaseSpan \in Nat \ {0}

Axis == MapMin..MapMax
Coordinate == [x : Int, y : Int]

\* The west (or south) edge of a span whose coordinate is centre: an even
\* span has no middle, and its coordinate sits one square low.
SpanLow(centre, span) == centre - (span - 1) \div 2

Footprint(at, spanX, spanY) ==
  [x0 |-> SpanLow(at.x, spanX), x1 |-> SpanLow(at.x, spanX) + spanX - 1,
   y0 |-> SpanLow(at.y, spanY), y1 |-> SpanLow(at.y, spanY) + spanY - 1]

Covers(box, at) == at.x \in box.x0..box.x1 /\ at.y \in box.y0..box.y1

\* Footprint of a tile in the anchor's coordinates.
Ground(tile) == Footprint([x |-> tile.dx, y |-> tile.dy], tile.spanX, tile.spanY)

TilesOverlap(a, b) ==
  LET p == Ground(a)
      q == Ground(b)
  IN /\ p.x0 <= q.x1 /\ q.x0 <= p.x1
     /\ p.y0 <= q.y1 /\ q.y0 <= p.y1

FitsOnMap(at, spanX, spanY) ==
  LET box == Footprint(at, spanX, spanY)
  IN /\ box.x0 >= MapMin /\ box.x1 <= MapMax
     /\ box.y0 >= MapMin /\ box.y1 <= MapMax

AbsoluteOf(anchor, offset) == [x |-> anchor.x + offset.dx, y |-> anchor.y + offset.dy]

\* Where a tile is, which identifies it while it is drawn.
OffsetKey(offset) == <<offset.dx, offset.dy>>

CanPlace(tiles, candidate) == \A other \in tiles : ~ TilesOverlap(other, candidate)

IsMemberBase(tile) ==
  tile.kind = "base" /\ tile.spanX = BaseSpan /\ tile.spanY = BaseSpan

-----------------------------------------------------------------------------
(* Areas dragged on the map.                                               *)

LesserOf(m, n) == IF m <= n THEN m ELSE n
GreaterOf(m, n) == IF m <= n THEN n ELSE m

BoxBetween(a, b) ==
  [x0 |-> LesserOf(a.x, b.x), x1 |-> GreaterOf(a.x, b.x),
   y0 |-> LesserOf(a.y, b.y), y1 |-> GreaterOf(a.y, b.y)]

\* Callers pass the coordinate alone, and so ask about that one square.
TileInsideBox(at, box) == Covers(box, at)

FreeTilesIn(box, anchor, taken) ==
  {tile \in {[dx |-> x - anchor.x, dy |-> y - anchor.y, spanX |-> 1, spanY |-> 1] :
               x \in (box.x0..box.x1) \cap Axis, y \in (box.y0..box.y1) \cap Axis} :
     CanPlace(taken, tile)}

OutlineTilesIn(box, anchor, taken) ==
  {tile \in FreeTilesIn(box, anchor, taken) :
     \/ AbsoluteOf(anchor, tile).x \in {box.x0, box.x1}
     \/ AbsoluteOf(anchor, tile).y \in {box.y0, box.y1}}

-----------------------------------------------------------------------------
(* Moving what is drawn.                                                   *)

ShiftedBy(tile, byX, byY) == [tile EXCEPT !.dx = @ + byX, !.dy = @ + byY]

CanMoveGroup(tiles, moving, byX, byY, anchor) ==
  LET stayingPut == {t \in tiles : OffsetKey(t) \notin moving}
  IN \A t \in tiles \ stayingPut :
       LET landing == ShiftedBy(t, byX, byY)
       IN /\ FitsOnMap(AbsoluteOf(anchor, landing), landing.spanX, landing.spanY)
          /\ CanPlace(stayingPut, landing)

\* Every tile stays on the map with the anchor there.
FormationFitsAt(anchor, tiles) ==
  \A t \in tiles : FitsOnMap(AbsoluteOf(anchor, t), t.spanX, t.spanY)

-----------------------------------------------------------------------------
(* Generated shapes, packed on the pitch of a base round the anchor.       *)

\* Math.round of half an integer, halves going up.
RoundHalf(n) == (n + 1) \div 2

PitchedTile(column, row, columns, rows) ==
  [dx |-> RoundHalf((2 * column - (columns - 1)) * BaseSpan),
   dy |-> RoundHalf(((rows - 1) - 2 * row) * BaseSpan),
   spanX |-> BaseSpan, spanY |-> BaseSpan]

BlockOffsets(columns, rows) ==
  {PitchedTile(column, row, columns, rows) : column \in 0..(columns - 1), row \in 0..(rows - 1)}

RingOffsets(columns, rows) ==
  IF columns < 3 \/ rows < 3
  THEN BlockOffsets(columns, rows)
  ELSE {PitchedTile(column, row, columns, rows) :
          column \in 0..(columns - 1), row \in {0, rows - 1}}
       \cup
       {PitchedTile(column, row, columns, rows) :
          column \in {0, columns - 1}, row \in 0..(rows - 1)}
=============================================================================
