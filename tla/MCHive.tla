-------------------------------- MODULE MCHive --------------------------------
(* Two officers saving one formation: a map of two squares by two, a base on  *)
(* one square, two members.                                                   *)
EXTENDS HiveSave, TLC
CONSTANTS s1, s2, p1, p2, c1

MCBrushes == {[spanX |-> 1, spanY |-> 1, kind |-> "base", colour |-> c1]}
MCAnchors == {[x |-> 0, y |-> 0]}
SavedBase(dx, slot, player, pin) ==
  [dx |-> dx, dy |-> 0, spanX |-> 1, spanY |-> 1, kind |-> "base", colour |-> c1,
   slot |-> slot, player |-> player, pinned |-> pin]
MCBoards == {{SavedBase(0, s1, p1, TRUE), SavedBase(1, s2, p2, FALSE)}}
MCShapes == {{[dx |-> 0, dy |-> 1, spanX |-> 1, spanY |-> 1, kind |-> "base", colour |-> c1, slot |-> NoSlot]}}
\* Ids not yet given out are alike.
FreshAlike == Permutations(SlotIds \ {s1, s2})
=============================================================================
