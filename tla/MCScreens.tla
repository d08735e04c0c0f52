------------------------------- MODULE MCScreens -------------------------------
(* What one officer's browser does with the hive: the drawing (MCDraw) and the *)
(* map it is drawn on (TileGrid).  They share no state, so each behaviour of   *)
(* the run is a behaviour of one of them.                                      *)
EXTENDS MCDraw
CONSTANTS Radii, Reach, Pictures, NoHand
VARIABLES picture, centre, radius, hand, swallow, incoming, press, heard, part

Grid == INSTANCE TileGrid

\* The widest window fits the map (ZOOM_STEPS: 34 squares either way of 1000),
\* and an anchor lies on the map (0165, anchor_x and anchor_y).
ASSUME GridAssumption ==
  /\ Reach \in Nat /\ Radii \subseteq Nat
  /\ \A r \in Radii : 2 * r <= MapMax - MapMin
  /\ \A p \in Pictures : p.anchor \in Square /\ \A b \in p.bases : b.at \in Coordinate

Pic(bases, at, sweeping, grabbable) ==
  [bases |-> bases, anchor |-> at, sweeping |-> sweeping, grabbable |-> grabbable]
PlayerAt(x, y, selected) ==
  [at |-> [x |-> x, y |-> y], spanX |-> BaseSpan, spanY |-> BaseSpan, structure |-> FALSE, selected |-> selected]
MarkerAt(x, y) == [at |-> [x |-> x, y |-> y], spanX |-> 1, spanY |-> 1, structure |-> TRUE, selected |-> FALSE]
MCPictures == {Pic({PlayerAt(0, 0, FALSE), MarkerAt(2, 2)}, [x |-> 2, y |-> 2], FALSE, TRUE),
               Pic({PlayerAt(0, 0, FALSE), MarkerAt(2, 2)}, [x |-> 2, y |-> 2], FALSE, FALSE),
               Pic({PlayerAt(0, 1, TRUE), MarkerAt(2, 2)}, [x |-> 2, y |-> 2], TRUE, TRUE)}

drawVars == <<editorVars, gestures>>
pointerVars == <<picture, centre, radius, hand, swallow, incoming, press, heard>>
screensVars == <<drawVars, pointerVars, part>>

ScreensInit ==
  /\ DrawInit /\ Grid!GridInit
  /\ \/ part = "drawing" /\ picture = CHOOSE p \in Pictures : TRUE
     \/ part = "pointer" /\ slots = CHOOSE rows \in Boards : TRUE

Drawing == part = "drawing" /\ DrawNext /\ UNCHANGED <<pointerVars, part>>
Pointer == part = "pointer" /\ Grid!GridNext /\ UNCHANGED <<drawVars, part>>

ScreensSpec == ScreensInit /\ [][Drawing \/ Pointer]_screensVars
PointerSpec == ScreensInit /\ [][Pointer]_screensVars

\* What TileGrid states of itself.
PressIsAClick == Grid!PressIsAClick

\* One press is at most one edit, a slide is none, and the middle of the map
\* shown lies on the map (TileGrid's handlers).
PointerIsSound == Grid!OneEditPerPress /\ Grid!SlidingEditsNothing /\ Grid!CentreIsShown

\* A saved place belongs to one tile and a member stands on one, whatever the
\* tiles are (FormationEditor's tools, in any order).
PlacesAreUnique == TypeOK /\ OneTilePerSlot /\ OneTilePerMember

\* What is drawn by hand lies on the map, and moving a part of the drawing
\* loses nobody who stands on it (FormationEditor's pick and move).
DrawingIsFaithful == DrawnByHandIsOnMap /\ MovingKeepsPeople
=============================================================================
