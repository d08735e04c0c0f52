------------------------------ MODULE HiveEditor ------------------------------
(***************************************************************************)
(* The hive editor of the dashboard (features/hive/FormationEditor.tsx):   *)
(* one officer's unsaved drawing of a formation and their unsaved plan of  *)
(* who stands where.  The board it was read from changes underneath it     *)
(* whenever another officer saves; module HiveSave adds the board itself   *)
(* and the two calls of a save.  Colour stands for everything a tile has   *)
(* besides its ground, its kind and its slot (label, ordinal).             *)
(***************************************************************************)
EXTENDS HiveTiles

CONSTANTS
  Players, NoOne,           \* the roster's player ids; nobody
  NoAnchor,                 \* no anchor move in flight
  SlotIds, NoSlot,          \* slot ids, saved and stand-in; a tile never saved
  Colours,                  \* what paint can give a tile
  Brushes,                  \* what the brush can be set to
  FrankieX, FrankieY,       \* squares FRANKIE takes
  BlockSides, RingSides,    \* sides of the shapes offered
  MaxTiles,                 \* MAX_TILES, where a sweep stops
  DrawBound,                \* bound of the model on tiles drawn one at a time
  Anchors,                  \* where the formation may be moved to
  Shapes,                   \* what the saved templates hold
  Boards                    \* what a read of the board can bring

VARIABLES
  draft,          \* the tiles drawn
  selection,      \* offset keys a box select picked out
  tool,           \* what a drag on the map means
  anchor,         \* the formation's anchor, as last read
  pendingAnchor,  \* where the anchor is going while the write is in flight
  slots,          \* the board as last read
  assignments,    \* slot id -> player, unsaved choices included
  pinned,         \* slot id -> the player pinned to it
  members         \* the roster as last read

people == <<assignments, pinned>>
place == <<anchor, pendingAnchor, slots, members>>
editorVars == <<draft, selection, tool, anchor, pendingAnchor, slots, assignments, pinned, members>>

Kinds == {"base", "structure"}
Tools == {"draw", "mark", "outline", "erase", "select"}
Square == [x : Axis, y : Axis]

Tile == [dx : Int, dy : Int, spanX : Nat \ {0}, spanY : Nat \ {0},
         kind : Kinds, colour : Colours, slot : SlotIds \cup {NoSlot}]
Brush == [spanX : Nat \ {0}, spanY : Nat \ {0}, kind : Kinds, colour : Colours]
Row == [dx : Int, dy : Int, spanX : Nat \ {0}, spanY : Nat \ {0}, kind : Kinds,
        colour : Colours, slot : SlotIds, player : Players \cup {NoOne}, pinned : BOOLEAN]

\* What the exclusion constraint on the board and on a template guarantees.
ApartFrom(tiles) == \A a, b \in tiles : a # b => ~ TilesOverlap(a, b)

ASSUME EditorAssumption ==
  /\ NoSlot \notin SlotIds /\ NoOne \notin Players /\ NoAnchor \notin Coordinate
  /\ Colours # {} /\ Brushes \subseteq Brush
  /\ FrankieX \in Nat \ {0} /\ FrankieY \in Nat \ {0} /\ Anchors \subseteq Coordinate
  /\ MaxTiles \in Nat /\ DrawBound \in Nat
  /\ BlockSides \subseteq Nat /\ RingSides \subseteq Nat
  /\ \A shape \in Shapes : shape \subseteq Tile /\ ApartFrom(shape)
  /\ \A rows \in Boards : rows \subseteq Row /\ ApartFrom(rows)

\* A slot id is one row's, and a member is on one row (assign_hive_formation_slots
\* refuses a member named twice and empties what it does not name).
OwnPlaces(rows) ==
  /\ \A r, s \in rows : r.slot = s.slot => r = s
  /\ \A r, s \in rows : r.player = s.player /\ r.player # NoOne => r = s

ASSUME BoardsAssumption ==
  /\ \A rows \in Boards : IsFiniteSet(rows) /\ OwnPlaces(rows) /\ \A r \in rows : r.pinned => r.player # NoOne
  /\ \A shape \in Shapes : IsFiniteSet(shape)

Keys(tiles) == {OffsetKey(t) : t \in tiles}

DraftFromBoard(rows) ==
  {[dx |-> r.dx, dy |-> r.dy, spanX |-> r.spanX, spanY |-> r.spanY,
    kind |-> r.kind, colour |-> r.colour, slot |-> r.slot] : r \in rows}

\* The tiles with nobody's slot on them: what a save or a template carries.
Layout(tiles) == {[t EXCEPT !.slot = NoSlot] : t \in tiles}

DraftFromTiles(shape) == Layout(shape)

AnchorShown == IF pendingAnchor = NoAnchor THEN anchor ELSE pendingAnchor

Saved == DraftFromBoard(slots)

\* Unsaved drawing: positions, sizes, kinds and colours; not the slot ids.
Dirty == Layout(draft) # Layout(Saved)

AssignmentsDirty == \E r \in slots : assignments[r.slot] # r.player

-----------------------------------------------------------------------------
(* Reading the board.                                                      *)

\* The same saved shape, slot ids included.
SameSavedShape(rows, others) == DraftFromBoard(rows) = DraftFromBoard(others)

SameOccupancy(rows, others) ==
  {[slot |-> r.slot, player |-> r.player, pinned |-> r.pinned] : r \in rows}
    = {[slot |-> r.slot, player |-> r.player, pinned |-> r.pinned] : r \in others}

StandsOn(rows, id, player) == \E r \in rows : r.slot = id /\ r.player = player

OccupantsOf(rows) ==
  [id \in SlotIds |-> IF \E r \in rows : r.slot = id
                      THEN (CHOOSE r \in rows : r.slot = id).player
                      ELSE NoOne]

\* Pins held here that still describe the board.
SurvivingPins(pins, rows) ==
  [id \in SlotIds |-> IF pins[id] # NoOne /\ StandsOn(rows, id, pins[id]) THEN pins[id] ELSE NoOne]

PinsOf(rows) ==
  [id \in SlotIds |-> IF \E r \in rows : r.slot = id /\ r.pinned
                      THEN OccupantsOf(rows)[id]
                      ELSE NoOne]

\* A read of the board and its anchor reaches the screen: the drawing and the
\* plan are each reset only by a change to what they were drawn from.
BoardArrives(rows, at) ==
  /\ slots' = rows
  /\ anchor' = at
  /\ draft' = IF SameSavedShape(slots, rows) THEN draft ELSE DraftFromBoard(rows)
  /\ IF SameOccupancy(slots, rows)
     THEN UNCHANGED people
     ELSE /\ assignments' = OccupantsOf(rows)
          /\ pinned' = LET held == SurvivingPins(pinned, rows)
                       IN [id \in SlotIds |-> IF PinsOf(rows)[id] # NoOne
                                              THEN PinsOf(rows)[id] ELSE held[id]]
  /\ UNCHANGED <<selection, tool, pendingAnchor, members>>

RosterArrives == \E roster \in SUBSET Players :
  members' = roster /\ UNCHANGED <<draft, selection, tool, anchor, pendingAnchor, slots, people>>

-----------------------------------------------------------------------------
(* Drawing on the map.                                                     *)

GroundUnder(at) ==
  {t \in draft : Covers(Footprint(AbsoluteOf(AnchorShown, t), t.spanX, t.spanY), at)}

\* The tile the brush would put down with its coordinate at a square.
TileAt(at, brush, slot) ==
  [dx |-> at.x - AnchorShown.x, dy |-> at.y - AnchorShown.y, spanX |-> brush.spanX,
   spanY |-> brush.spanY, kind |-> brush.kind, colour |-> brush.colour, slot |-> slot]

\* A click on a tile takes it out; on free ground it puts the brush's down.
PickUp(at) ==
  /\ GroundUnder(at) # {}
  /\ \E hit \in GroundUnder(at) : draft' = draft \ {hit}
  /\ UNCHANGED <<selection, tool, people, place>>

PickDown(at) == \E brush \in Brushes :
  LET candidate == TileAt(at, brush, NoSlot)
  IN /\ GroundUnder(at) = {}
     /\ FitsOnMap(at, brush.spanX, brush.spanY)
     /\ CanPlace(draft, candidate)
     /\ Cardinality(draft) < DrawBound
     /\ draft' = draft \cup {candidate}
     /\ UNCHANGED <<selection, tool, people, place>>

SweepSelect(box) ==
  /\ tool = "select"
  /\ selection' = Keys({t \in draft : TileInsideBox(AbsoluteOf(AnchorShown, t), box)})
  /\ UNCHANGED <<draft, tool, people, place>>

SweepErase(box) ==
  /\ tool = "erase"
  /\ draft' = {t \in draft : ~ /\ t.kind = "structure" /\ t.spanX = 1 /\ t.spanY = 1
                               /\ TileInsideBox(AbsoluteOf(AnchorShown, t), box)}
  /\ UNCHANGED <<selection, tool, people, place>>

SweepMark(box) ==
  LET free == IF tool = "outline" THEN OutlineTilesIn(box, AnchorShown, draft)
                                  ELSE FreeTilesIn(box, AnchorShown, draft)
  IN /\ tool \in {"mark", "outline"}
     /\ free # {}
     /\ Cardinality(draft) + Cardinality(free) <= MaxTiles
     /\ \E colour \in Colours :
          draft' = draft \cup {[dx |-> f.dx, dy |-> f.dy, spanX |-> 1, spanY |-> 1,
                                kind |-> "structure", colour |-> colour, slot |-> NoSlot] : f \in free}
     /\ UNCHANGED <<selection, tool, people, place>>

SetTool(chosen) ==
  /\ tool' = chosen
  /\ selection' = IF chosen = "select" THEN selection ELSE {}
  /\ UNCHANGED <<draft, people, place>>

Deselect ==
  /\ tool = "select" /\ selection # {}
  /\ selection' = {}
  /\ UNCHANGED <<draft, tool, people, place>>

Selected == {t \in draft : OffsetKey(t) \in selection}

\* Mutant: the moved tiles are drawn afresh and forget whose they were.
MoveSelectionAnonymous(byX, byY) ==
  LET landed == {[ShiftedBy(t, byX, byY) EXCEPT !.slot = NoSlot] : t \in Selected}
  IN /\ selection # {} /\ <<byX, byY>> # <<0, 0>>
     /\ CanMoveGroup(draft, selection, byX, byY, AnchorShown)
     /\ draft' = (draft \ Selected) \cup landed
     /\ selection' = Keys(landed)
     /\ UNCHANGED <<tool, people, place>>

MoveSelection(byX, byY) ==
  LET landed == {ShiftedBy(t, byX, byY) : t \in Selected}
  IN /\ selection # {}
     /\ <<byX, byY>> # <<0, 0>>
     /\ CanMoveGroup(draft, selection, byX, byY, AnchorShown)
     /\ draft' = (draft \ Selected) \cup landed
     /\ selection' = Keys(landed)
     /\ UNCHANGED <<tool, people, place>>

DeleteSelection ==
  /\ tool = "select" /\ selection # {}
  /\ draft' = draft \ Selected
  /\ selection' = {}
  /\ UNCHANGED <<tool, people, place>>

PaintSelection(colour) ==
  /\ tool = "select" /\ selection # {}
  /\ draft' = (draft \ Selected) \cup {[t EXCEPT !.colour = colour] : t \in Selected}
  /\ UNCHANGED <<selection, tool, people, place>>

\* Mutants: the landing is not checked; the ground left behind is kept.
MoveUnchecked(held, to) ==
  /\ tool = "draw" /\ held.kind = "base" /\ FitsOnMap(to, held.spanX, held.spanY)
  /\ draft' = (draft \ {held})
               \cup {[held EXCEPT !.dx = to.x - AnchorShown.x, !.dy = to.y - AnchorShown.y]}
  /\ UNCHANGED <<selection, tool, people, place>>
MoveCopies(held, to) ==
  /\ tool = "draw" /\ held.kind = "base" /\ FitsOnMap(to, held.spanX, held.spanY)
  /\ draft' = draft \cup {[held EXCEPT !.dx = to.x - AnchorShown.x, !.dy = to.y - AnchorShown.y]}
  /\ UNCHANGED <<selection, tool, people, place>>

\* A dragged base is put down; one of a selection takes the selection along.
Move(held, to) ==
  LET landing == [held EXCEPT !.dx = to.x - AnchorShown.x, !.dy = to.y - AnchorShown.y]
  IN IF OffsetKey(held) \in selection
     THEN MoveSelection(landing.dx - held.dx, landing.dy - held.dy)
     ELSE /\ tool = "draw" /\ held.kind = "base"
          /\ FitsOnMap(to, held.spanX, held.spanY)
          /\ CanPlace({t \in draft : OffsetKey(t) # OffsetKey(held)}, landing)
          /\ draft' = (draft \ {held}) \cup {landing}
          /\ UNCHANGED <<selection, tool, people, place>>

Frankie == [dx |-> 0, dy |-> 0, spanX |-> FrankieX, spanY |-> FrankieY, kind |-> "structure",
            colour |-> CHOOSE c \in Colours : TRUE, slot |-> NoSlot]

Generate(offsets) ==
  LET usable == {o \in offsets : /\ FitsOnMap(AbsoluteOf(AnchorShown, o), o.spanX, o.spanY)
                                 /\ ~ TilesOverlap(Frankie, o)}
  IN /\ draft' = {Frankie} \cup {[dx |-> o.dx, dy |-> o.dy, spanX |-> o.spanX, spanY |-> o.spanY,
                                  kind |-> "base", colour |-> Frankie.colour, slot |-> NoSlot] : o \in usable}
     /\ UNCHANGED <<selection, tool, people, place>>

GenerateBlock(side) == Generate(BlockOffsets(side, side))
GenerateRing(side) == Generate(RingOffsets(side, side))

\* A loaded shape replaces the drawing, empty, wherever it lands.
TemplateLoad(shape) ==
  /\ draft' = DraftFromTiles(shape)
  /\ UNCHANGED <<selection, tool, people, place>>

Discard ==
  /\ Dirty
  /\ draft' = Saved
  /\ UNCHANGED <<selection, tool, people, place>>

Clear ==
  /\ draft' = {}
  /\ UNCHANGED <<selection, tool, people, place>>

-----------------------------------------------------------------------------
(* Moving the formation.                                                   *)

MoveAnchor(to) ==
  /\ pendingAnchor = NoAnchor
  /\ to # anchor
  /\ FormationFitsAt(to, draft)
  /\ pendingAnchor' = to
  /\ UNCHANGED <<draft, selection, tool, anchor, slots, people, members>>

AnchorMoved ==
  /\ pendingAnchor # NoAnchor
  /\ anchor' = pendingAnchor /\ pendingAnchor' = NoAnchor
  /\ UNCHANGED <<draft, selection, tool, slots, people, members>>

AnchorRefused ==
  /\ pendingAnchor # NoAnchor
  /\ pendingAnchor' = NoAnchor
  /\ UNCHANGED <<draft, selection, tool, anchor, slots, people, members>>

-----------------------------------------------------------------------------
(* Who stands where.                                                       *)

DrawnSlots == {t.slot : t \in draft} \ {NoSlot}
LiveSlots == DrawnSlots \cup {r.slot : r \in slots}
HeldSlots == LiveSlots \cup {id \in SlotIds : assignments[id] # NoOne \/ pinned[id] # NoOne}

\* A member dropped from the list: onto a base, or on free ground, which draws
\* a base for them under a stand-in slot id.
DropMember(player, at) ==
  LET hit == GroundUnder(at)
      fresh == SlotIds \ HeldSlots
      seat(id) ==
        /\ assignments' = [s \in SlotIds |->
             IF s = id THEN player
             ELSE IF assignments[s] # player /\ s \in LiveSlots THEN assignments[s] ELSE NoOne]
        /\ pinned' = [s \in SlotIds |->
             IF s = id THEN player ELSE IF pinned[s] # player THEN pinned[s] ELSE NoOne]
  IN /\ player \in members
     /\ \/ \E t \in hit :
             /\ IsMemberBase(t) /\ t.slot # NoSlot
             /\ seat(t.slot)
             /\ draft' = draft
        \/ \E t \in hit, id \in fresh :
             /\ IsMemberBase(t) /\ t.slot = NoSlot
             /\ seat(id)
             /\ draft' = (draft \ {t}) \cup {[t EXCEPT !.slot = id]}
        \/ \E id \in fresh, colour \in Colours :
             LET tile == TileAt(at, [spanX |-> BaseSpan, spanY |-> BaseSpan,
                                     kind |-> "base", colour |-> colour], id)
             IN /\ hit = {}
                /\ FitsOnMap(at, BaseSpan, BaseSpan)
                /\ CanPlace(draft, tile)
                /\ Cardinality(draft) + 1 <= MaxTiles
                /\ seat(id)
                /\ draft' = draft \cup {tile}
     /\ UNCHANGED <<selection, tool, place>>

\* The table of tiles, on screen only while the drawing is the saved one.
Seats == {r \in slots : IsMemberBase(r)}
TableShown == ~ Dirty /\ Seats # {}

ChooseFor(id, player) ==
  /\ TableShown
  /\ assignments' = [s \in SlotIds |-> IF s = id THEN player
                                       ELSE IF assignments[s] = player THEN NoOne ELSE assignments[s]]
  /\ pinned' = [s \in SlotIds |-> IF s = id THEN player
                                  ELSE IF assignments[s] = player THEN NoOne ELSE pinned[s]]
  /\ UNCHANGED <<draft, selection, tool, place>>

Vacate(id) ==
  /\ TableShown
  /\ assignments' = [assignments EXCEPT ![id] = NoOne]
  /\ pinned' = [pinned EXCEPT ![id] = NoOne]
  /\ UNCHANGED <<draft, selection, tool, place>>

EmptyEveryTile ==
  /\ TableShown
  /\ assignments' = [s \in SlotIds |-> NoOne]
  /\ UNCHANGED <<draft, selection, tool, pinned, place>>

\* How many rings of bases out from what stands on the anchor.
CeilBy(n, d) == (n + d - 1) \div d

CoresOf(tiles) ==
  LET onAnchor == {box \in {Ground(t) : t \in {u \in tiles : u.kind = "structure"}} :
                     Covers(box, [x |-> 0, y |-> 0])}
  IN IF onAnchor = {} THEN {[x0 |-> 0, x1 |-> 0, y0 |-> 0, y1 |-> 0]} ELSE onAnchor

RingFrom(core, at) ==
  LET gapX == GreaterOf(GreaterOf(core.x0 - at.dx, at.dx - core.x1), 0)
      gapY == GreaterOf(GreaterOf(core.y0 - at.dy, at.dy - core.y1), 0)
  IN GreaterOf(CeilBy(gapX, BaseSpan), CeilBy(gapY, BaseSpan))

RingOf(at, tiles) ==
  CHOOSE ring \in {RingFrom(core, at) : core \in CoresOf(tiles)} :
    \A core \in CoresOf(tiles) : ring <= RingFrom(core, at)

\* Innermost ring first; inside a ring north first, then west: the order of slots whose
\* ordinal is zero.  A numbering by the planner, which goes before it, is left out.
FillsBefore(a, b) ==
  LET inner == RingOf(a, draft)
      outer == RingOf(b, draft)
  IN \/ inner < outer
     \/ inner = outer /\ a.dy > b.dy
     \/ inner = outer /\ a.dy = b.dy /\ a.dx < b.dx

\* Hand out the tiles: pins first, the rest in the chosen order of members.
AutoAssign(rank) ==
  LET honoured == {r \in Seats : /\ pinned[r.slot] \in members
                                 /\ \A other \in Seats : FillsBefore(other, r)
                                                         => pinned[other.slot] # pinned[r.slot]}
      queue == members \ {pinned[r.slot] : r \in honoured}
      open == Seats \ honoured
      turn(r) == Cardinality({o \in open : FillsBefore(o, r)})
      taker(r) == {p \in queue : Cardinality({q \in queue : rank[q] < rank[p]}) = turn(r)}
  IN [s \in SlotIds |->
        IF \E r \in honoured : r.slot = s THEN pinned[s]
        ELSE IF \E r \in open : r.slot = s /\ taker(r) # {}
             THEN CHOOSE p \in taker(CHOOSE r \in open : r.slot = s) : TRUE
             ELSE NoOne]

Rankings == {rank \in [Players -> 1..Cardinality(Players)] : \A p, q \in Players : rank[p] = rank[q] => p = q}

Fill(rank) ==
  /\ TableShown
  /\ assignments' = AutoAssign(rank)
  /\ UNCHANGED <<draft, selection, tool, pinned, place>>

\* Every filled tile whose member is one of some, on top of what is pinned.
PinWhere(some) ==
  /\ TableShown
  /\ \E r \in Seats : assignments[r.slot] # NoOne
  /\ pinned' = [s \in SlotIds |-> IF assignments[s] \in some \cap members
                                  THEN assignments[s] ELSE pinned[s]]
  /\ UNCHANGED <<draft, selection, tool, assignments, place>>

UnpinEverything ==
  /\ TableShown
  /\ pinned' = [s \in SlotIds |-> NoOne]
  /\ UNCHANGED <<draft, selection, tool, assignments, place>>

TogglePin(id) ==
  /\ TableShown
  /\ assignments[id] # NoOne
  /\ pinned' = [pinned EXCEPT ![id] = IF pinned[id] = NoOne THEN assignments[id] ELSE NoOne]
  /\ UNCHANGED <<draft, selection, tool, assignments, place>>

-----------------------------------------------------------------------------
Boxes == {BoxBetween(a, b) : a, b \in Square}

\* What the officer does with a pointer on the map, a save in flight or not.
OnTheMap ==
  \/ \E at \in Square : PickUp(at) \/ PickDown(at)
  \/ \E box \in Boxes : SweepSelect(box) \/ SweepErase(box) \/ SweepMark(box)
  \/ \E held \in draft, to \in Square : Move(held, to)
  \/ \E player \in Players, at \in Square : DropMember(player, at)

Nudges == {<<-1, 0>>, <<1, 0>>, <<0, 1>>, <<0, -1>>}

\* The buttons beside the map.
BesideTheMap ==
  \/ \E chosen \in Tools : SetTool(chosen)
  \/ tool = "select" /\ \E nudge \in Nudges : MoveSelection(nudge[1], nudge[2])
  \/ Deselect \/ DeleteSelection
  \/ \E colour \in Colours : PaintSelection(colour)
  \/ \E side \in BlockSides : GenerateBlock(side)
  \/ \E side \in RingSides : GenerateRing(side)
  \/ \E shape \in Shapes : TemplateLoad(shape)
  \/ Discard \/ Clear
  \/ \E to \in Anchors : MoveAnchor(to)
  \/ AnchorMoved \/ AnchorRefused

InTheTable ==
  \/ \E r \in Seats : \/ \E player \in members : ChooseFor(r.slot, player)
                      \/ Vacate(r.slot) \/ TogglePin(r.slot)
  \/ EmptyEveryTile \/ UnpinEverything
  \/ \E rank \in Rankings : Fill(rank)
  \/ \E some \in SUBSET Players : PinWhere(some)

\* The database keeps every saved tile on the map from the anchor.
Refetched == \E rows \in Boards, at \in Anchors :
  FormationFitsAt(at, rows) /\ BoardArrives(rows, at)

Init ==
  /\ slots \in Boards
  /\ draft = DraftFromBoard(slots)
  /\ selection = {} /\ tool = "draw"
  /\ anchor \in {at \in Anchors : FormationFitsAt(at, slots)} /\ pendingAnchor = NoAnchor
  /\ assignments = OccupantsOf(slots) /\ pinned = PinsOf(slots)
  /\ members = Players

Next == OnTheMap \/ BesideTheMap \/ InTheTable \/ Refetched \/ RosterArrives

Spec == Init /\ [][Next]_editorVars

-----------------------------------------------------------------------------
TypeOK ==
  /\ draft \subseteq Tile
  /\ selection \subseteq Int \X Int
  /\ tool \in Tools
  /\ anchor \in Coordinate /\ pendingAnchor \in Coordinate \cup {NoAnchor}
  /\ slots \subseteq Row
  /\ assignments \in [SlotIds -> Players \cup {NoOne}]
  /\ pinned \in [SlotIds -> Players \cup {NoOne}]
  /\ members \subseteq Players

\* Whatever is clicked, swept, dragged, nudged, generated or loaded, no two
\* tiles of the drawing share ground: the save is never refused for it.
NoSharedGround == ApartFrom(draft)

\* A slot id is on one tile: two tiles never lead to the same saved place.
OneTilePerSlot == \A a, b \in draft : a.slot = b.slot /\ a.slot # NoSlot => a = b

\* No member stands on two of the tiles a save would write, whichever way they
\* were put there; the assignment call refuses a member named twice.
OneTilePerMember ==
  \A s, t \in LiveSlots : assignments[s] = assignments[t] /\ assignments[s] # NoOne => s = t

\* A tile put on the map by hand is on the map from the anchor shown: only a
\* loaded shape, a generated Frankie or a read of the board can hang off it.
OnMap(t) == FitsOnMap(AbsoluteOf(AnchorShown, t), t.spanX, t.spanY)
DrawnByHandIsOnMap ==
  [][\A t \in draft' \ draft : OnTheMap => OffsetKey(t) \in Keys(draft) \/ OnMap(t)]_editorVars

\* Dragging, nudging, painting or colouring never takes anybody off a tile:
\* the slots the drawing leads to are the same before and after.
MovingKeepsPeople ==
  [][DrawnSlots' # DrawnSlots =>
       ~ \/ \E held \in draft, to \in Square : Move(held, to)
         \/ \E c \in Colours : PaintSelection(c)
         \/ \E n \in Nudges : MoveSelection(n[1], n[2])]_editorVars
=============================================================================
