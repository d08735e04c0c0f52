-------------------------------- MODULE TileGrid --------------------------------
(***************************************************************************)
(* The map an officer draws on (features/hive/TileGrid.tsx): a window of   *)
(* tiles, and what one pointer means on it.  The browser sends a press,    *)
(* moves, a release, and after the release of the primary button a click;  *)
(* the grid keeps the gesture in hand between them and calls the editor.   *)
(* Positions are cells of the window; the editor's picture changes under   *)
(* the pointer whenever the board is read again.                           *)
(***************************************************************************)
EXTENDS HiveTiles, Sequences

CONSTANTS
  Radii,       \* ZOOM_STEPS
  Reach,       \* bound of the model: how far past an edge a pointer goes
  Pictures,    \* what the editor can ask to be drawn
  NoHand       \* no gesture in hand, nobody being dragged in

VARIABLES
  picture,     \* bases, anchor, whether an area tool is on, whether the anchor may be grabbed
  centre, radius,
  hand,        \* the gesture the press began
  swallow,     \* the next click belongs to a gesture that is over
  incoming,    \* where a member dragged in from the list would land
  press,       \* what the pointer did since it was pressed
  heard        \* the edits the editor was called with since then

view == <<centre, radius>>
gridVars == <<picture, view, hand, swallow, incoming, press, heard>>

-----------------------------------------------------------------------------
(* The window.                                                             *)

Across == 2 * radius + 1
Slide(v) == LesserOf(MapMax - Across + 1, GreaterOf(MapMin, v - radius))
Window == [x0 |-> Slide(centre.x), x1 |-> Slide(centre.x) + Across - 1,
           y0 |-> Slide(centre.y), y1 |-> Slide(centre.y) + Across - 1]

\* A pointer that was captured may be past an edge.
Cells == [column : (-Reach)..(Across - 1 + Reach), row : (-Reach)..(Across - 1 + Reach)]
Origin == [column |-> 0, row |-> 0]
Onto(low, high, v) == LesserOf(high, GreaterOf(low, v))

\* Rows count down the screen, y counts up the map.
TileUnder(cell) == [x |-> Onto(Window.x0, Window.x1, Window.x0 + cell.column),
                    y |-> Onto(Window.y0, Window.y1, Window.y1 - cell.row)]

PannedCentre(byX, byY) == [x |-> Onto(MapMin, MapMax, centre.x + byX),
                           y |-> Onto(MapMin, MapMax, centre.y + byY)]

\* One notch closer (1) or wider (-1), stopping at the ends of the ladder.
ZoomStep(direction) ==
  LET beyond == {r \in Radii : IF direction = 1 THEN r < radius ELSE r > radius}
  IN IF beyond = {} THEN radius
     ELSE CHOOSE r \in beyond : \A s \in beyond : IF direction = 1 THEN r >= s ELSE r <= s

-----------------------------------------------------------------------------
(* What is under the pointer.                                              *)

BasesUnder(tile) == {b \in picture.bases : Covers(Footprint(b.at, b.spanX, b.spanY), tile)}

\* The anchor's own square, unless somebody stands there.
GrabsAnchor(tile) ==
  /\ picture.grabbable /\ ~ picture.sweeping
  /\ tile = picture.anchor
  /\ \A b \in BasesUnder(tile) : b.structure

Carry(b) == [kind |-> "drag", from |-> b.at, to |-> b.at, moved |-> FALSE, allowed |-> TRUE]
Slip(cell, modifier) == [kind |-> "pan", cell |-> cell, moved |-> FALSE, modifier |-> modifier]
Sweep(tile) == [kind |-> "region", from |-> tile, to |-> tile]
CarryAnchor == [kind |-> "anchor", to |-> picture.anchor, moved |-> FALSE, allowed |-> TRUE]

\* What a press on a cell begins: a modifier or the middle button slides the
\* map whatever is there.
Begins(cell, how) ==
  LET tile == TileUnder(cell)
      people == {b \in BasesUnder(tile) : ~ b.structure}
      chosen == {b \in BasesUnder(tile) : b.selected}
  IN IF how # "left" THEN {Slip(cell, TRUE)}
     ELSE IF picture.sweeping
          THEN IF chosen # {} THEN {Carry(b) : b \in chosen} ELSE {Sweep(tile)}
     ELSE IF GrabsAnchor(tile) THEN {CarryAnchor}
     ELSE IF people # {} THEN {Carry(b) : b \in people}
     ELSE {Slip(cell, FALSE)}

Call(name) == heard' = Append(heard, name)
Lifted == [press EXCEPT !.phase = "up", !.cell = Origin, !.strayed = FALSE]

PointerDown(cell, how) ==
  /\ press.phase = "up" /\ incoming = NoHand /\ cell.column \in 0..(Across - 1) /\ cell.row \in 0..(Across - 1)
  /\ press' = [phase |-> "down", how |-> how, cell |-> cell, strayed |-> FALSE]
  /\ hand' \in Begins(cell, how)
  /\ heard' = <<>>
  /\ UNCHANGED <<picture, view, swallow, incoming>>

-----------------------------------------------------------------------------
(* The pointer moves.  The editor answers whether a landing is allowed.    *)

StepPan(cell) ==
  LET byX == cell.column - hand.cell.column
      byY == cell.row - hand.cell.row
  IN /\ hand.kind = "pan"
     /\ IF byX = 0 /\ byY = 0 THEN UNCHANGED <<hand, centre>>
        ELSE /\ hand' = [hand EXCEPT !.cell = cell, !.moved = TRUE]
             /\ centre' = PannedCentre(-byX, byY)

StretchRegion(cell) ==
  /\ hand.kind = "region"
  /\ hand' = [hand EXCEPT !.to = TileUnder(cell)]
  /\ UNCHANGED centre

CarryOn(cell) == \E answer \in BOOLEAN :
  /\ hand.kind \in {"drag", "anchor"}
  /\ LET tile == TileUnder(cell)
         moved == hand.moved \/ IF hand.kind = "anchor" THEN tile # hand.to ELSE tile # hand.from
     IN IF ~ moved \/ (hand.moved /\ tile = hand.to) THEN hand' = hand
        ELSE hand' = [hand EXCEPT !.to = tile, !.moved = TRUE, !.allowed = answer]
  /\ UNCHANGED centre

PointerMove(cell) ==
  /\ press.phase = "down"
  /\ press' = [press EXCEPT !.strayed = @ \/ cell # press.cell]
  /\ StepPan(cell) \/ StretchRegion(cell) \/ CarryOn(cell)
  /\ UNCHANGED <<picture, radius, swallow, incoming, heard>>

-----------------------------------------------------------------------------
(* The pointer is let go.                                                  *)

\* Mutant: a sweep leaves the click that follows to be a click.
EndRegionClicks(cell) ==
  hand.kind = "region" /\ swallow' = swallow /\ Call("region")

EndPan ==
  /\ hand.kind = "pan"
  /\ swallow' = (swallow \/ hand.moved \/ hand.modifier)
  /\ heard' = heard

EndRegion(cell) ==
  /\ hand.kind = "region"
  /\ swallow' = TRUE
  /\ Call("region")

EndAnchor ==
  /\ hand.kind = "anchor"
  /\ swallow' = (swallow \/ hand.moved)
  /\ IF hand.moved /\ hand.allowed /\ hand.to # picture.anchor
     THEN Call("anchor") ELSE heard' = heard

EndDrag(cell) ==
  /\ hand.kind = "drag"
  /\ swallow' = (swallow \/ hand.moved)
  /\ IF hand.moved /\ hand.allowed /\ TileUnder(cell) # hand.from
     THEN Call("move") ELSE heard' = heard

\* Only the primary button's release is followed by a click.
PointerUp(cell) ==
  /\ press.phase = "down"
  /\ press' = IF press.how = "middle" THEN Lifted
              ELSE [press EXCEPT !.phase = "released", !.strayed = @ \/ cell # press.cell, !.cell = cell]
  /\ EndPan \/ EndRegion(cell) \/ EndAnchor \/ EndDrag(cell)
  /\ hand' = NoHand
  /\ UNCHANGED <<picture, view, incoming>>

\* The system takes the pointer away: no click follows.
PointerCancel ==
  /\ press.phase = "down"
  /\ press' = Lifted
  /\ hand' = NoHand
  /\ UNCHANGED <<picture, view, swallow, incoming, heard>>

Click ==
  /\ press.phase = "released"
  /\ press' = Lifted
  /\ swallow' = FALSE
  /\ IF swallow THEN heard' = heard ELSE Call("pick")
  /\ UNCHANGED <<picture, view, hand, incoming>>

\* Enter on the focused grid is a click with no position.
KeyClick ==
  /\ press.phase = "up" /\ swallow
  /\ swallow' = FALSE
  /\ UNCHANGED <<picture, view, hand, incoming, press, heard>>

-----------------------------------------------------------------------------
(* The wheel, a member dragged in, and the editor redrawing.               *)

Zoom(direction, cell) ==
  /\ radius' = ZoomStep(direction)
  /\ centre' = TileUnder(cell)
  /\ UNCHANGED <<picture, hand, swallow, incoming, press, heard>>

MemberOver(cell) == \E answer \in BOOLEAN :
  /\ press.phase = "up"
  /\ incoming' = [at |-> TileUnder(cell), allowed |-> answer]
  /\ UNCHANGED <<picture, view, hand, swallow, press, heard>>

MemberLeaves ==
  /\ incoming # NoHand
  /\ incoming' = NoHand
  /\ UNCHANGED <<picture, view, hand, swallow, press, heard>>

\* The editor decides again whether the drop lands.
MemberDropped ==
  /\ incoming # NoHand
  /\ incoming' = NoHand
  /\ heard' = <<"member">>
  /\ UNCHANGED <<picture, view, hand, swallow, press>>

\* A save, a refetch or a tool button: the tool only between gestures.
Redrawn == \E drawn \in Pictures :
  /\ hand # NoHand => drawn.sweeping = picture.sweeping
  /\ press.phase # "released"
  /\ picture' = drawn
  /\ centre' = IF drawn.anchor = picture.anchor THEN centre ELSE drawn.anchor
  /\ UNCHANGED <<radius, hand, swallow, incoming, press, heard>>

GridInit ==
  /\ picture \in Pictures
  /\ centre = picture.anchor /\ radius \in Radii
  /\ hand = NoHand /\ swallow = FALSE /\ incoming = NoHand
  /\ press = [phase |-> "up", how |-> "left", cell |-> Origin, strayed |-> FALSE]
  /\ heard = <<>>

GridNext ==
  \/ \E cell \in Cells : \/ \E how \in {"left", "ctrl", "middle"} : PointerDown(cell, how)
                         \/ PointerMove(cell) \/ PointerUp(cell)
                         \/ \E direction \in {1, -1} : Zoom(direction, cell)
                         \/ MemberOver(cell)
  \/ PointerCancel \/ Click \/ KeyClick \/ MemberLeaves \/ MemberDropped \/ Redrawn

GridSpec == GridInit /\ [][GridNext]_gridVars

-----------------------------------------------------------------------------
\* One press edits once: dropping a base does not also take it away, and an
\* area swept is not also a tile toggled.
OneEditPerPress == Len(heard) <= 1

\* Sliding the map with the modifier or the middle button never edits
\* anything, the click that follows it included.
SlidingEditsNothing ==
  press.how # "left" => \A i \in 1..Len(heard) : heard[i] = "member"

\* The window is on the map and shows its centre, however far it was slid and
\* whichever notch the wheel is on: a slide never has to be undone first.
CentreIsShown ==
  /\ Covers(Window, centre)
  /\ Window.x0 >= MapMin /\ Window.x1 <= MapMax /\ Window.y0 >= MapMin /\ Window.y1 <= MapMax

\* A press that stayed in one square is a click there and nothing else
\* (TileGrid.tsx, DRAG_THRESHOLD_TILES: "Below this a press is a click and
\* does what a click did before").
PressIsAClick ==
  [][Click /\ press.how = "left" /\ ~ press.strayed /\ ~ picture.sweeping
       => heard' = <<"pick">>]_gridVars
=============================================================================
