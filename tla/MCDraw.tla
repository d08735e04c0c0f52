------------------------------- MODULE MCDraw -------------------------------
(* The hive editor on a map of three squares by three, where a base takes   *)
(* two by two, the smallest on which bases can be in each other's way.      *)
EXTENDS HiveEditor
CONSTANTS s1, s2, p1, c1

MCBrushes == {[spanX |-> 1, spanY |-> 1, kind |-> "structure", colour |-> c1],
              [spanX |-> 2, spanY |-> 2, kind |-> "base", colour |-> c1]}
MCAnchors == {[x |-> 1, y |-> 1], [x |-> 2, y |-> 2]}

\* The member's base alone, and with a marker beside it.
SavedBase == [dx |-> 0, dy |-> 0, spanX |-> 2, spanY |-> 2, kind |-> "base", colour |-> c1,
              slot |-> s1, player |-> p1, pinned |-> FALSE]
SavedMarker == [dx |-> 0, dy |-> -1, spanX |-> 1, spanY |-> 1, kind |-> "structure", colour |-> c1,
                slot |-> s2, player |-> NoOne, pinned |-> FALSE]
MCBoards == {{SavedBase}, {SavedBase, SavedMarker}}
MCShapes == {{[dx |-> 1, dy |-> 1, spanX |-> 2, spanY |-> 2, kind |-> "base", colour |-> c1, slot |-> NoSlot]}}

CONSTANT MaxGestures
VARIABLE gestures

\* The drawing alone, for a session of MaxGestures gestures; the table of tiles
\* is the business of MCHive.
DrawInit == Init /\ gestures = 0
DrawNext ==
  /\ gestures < MaxGestures /\ gestures' = gestures + 1
  /\ OnTheMap \/ BesideTheMap \/ Refetched
=============================================================================
