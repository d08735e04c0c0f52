------------------------------- MODULE HiveSave -------------------------------
(***************************************************************************)
(* Saving a hive formation.  The shape and the people are written by two   *)
(* calls (migration 0177): the first deletes the tiles that moved and      *)
(* inserts new ones under new ids, the second names tiles by id; between   *)
(* them the board is read back.  Either call can fail, or land with its    *)
(* answer lost, and another officer may write to the same board at any     *)
(* moment.                                                                 *)
(***************************************************************************)
EXTENDS HiveEditor

CONSTANTS MaxEdits, MaxOthers   \* bounds of the model on what the two officers do

VARIABLES
  board,      \* hive_formation_slots, the formation's rows
  save,       \* the save in flight: what it carries and how far it is
  lost,       \* members reported as having lost their tile by the last save
  edits, others

saveVars == <<editorVars, board, save, lost, edits, others>>
server == <<board, others>>

Idle == [phase |-> "none"]

At(key, rows) == {r \in rows : OffsetKey(r) = key}
IdsOf(rows) == {r.slot : r \in rows}

\* Mutant: ids are given out again once no row has them.
FreshIdsReused == SlotIds \ IdsOf(board)

\* Ids the database has not given out and no browser holds.
FreshIds == SlotIds \ (HeldSlots \cup IdsOf(board)
                       \cup IF save.phase \in {"place", "people"} THEN DOMAIN save.plan ELSE {})

-----------------------------------------------------------------------------
(* save_hive_formation_layout and assign_hive_formation_slots.             *)

Gone(layout) == {r \in board : OffsetKey(r) \notin Keys(layout)}

\* What a tile at a row's offset makes of the row; one that stops being a base
\* stops holding anybody, and their pin goes with them.
Redrawn(row, tile) ==
  [row EXCEPT !.spanX = tile.spanX, !.spanY = tile.spanY, !.kind = tile.kind, !.colour = tile.colour,
              !.player = IF tile.kind = "base" THEN row.player ELSE NoOne,
              !.pinned = tile.kind = "base" /\ row.pinned]

NewRow(tile, id) ==
  [dx |-> tile.dx, dy |-> tile.dy, spanX |-> tile.spanX, spanY |-> tile.spanY, kind |-> tile.kind,
   colour |-> tile.colour, slot |-> id, player |-> NoOne, pinned |-> FALSE]

\* The new tiles of a layout under new ids, each its own.
SaveLayout(layout) ==
  LET added == {t \in layout : At(OffsetKey(t), board) = {}}
  IN \E ids \in [added -> FreshIds] :
       /\ \A s, t \in added : ids[s] = ids[t] => s = t
       /\ board' = {Redrawn(r, CHOOSE t \in layout : OffsetKey(t) = OffsetKey(r)) : r \in board \ Gone(layout)}
                   \cup {NewRow(t, ids[t]) : t \in added}

\* plan maps the slots named to a player and a pin; what it does not name is
\* emptied.  A slot of another formation or a member named twice is refused.
AssignAccepts(plan) ==
  /\ DOMAIN plan \subseteq IdsOf(board)
  /\ \A s, t \in DOMAIN plan : plan[s].player = plan[t].player /\ plan[s].player # NoOne => s = t

\* Mutant: tiles the plan does not name keep whoever stands there.
AssignSlotsNamedOnly(plan) ==
  board' = {IF r.slot \in DOMAIN plan
            THEN [r EXCEPT !.player = plan[r.slot].player, !.pinned = plan[r.slot].pinned]
            ELSE r : r \in board}

AssignSlots(plan) ==
  board' = {IF r.slot \in DOMAIN plan
            THEN [r EXCEPT !.player = plan[r.slot].player,
                           !.pinned = plan[r.slot].pinned /\ plan[r.slot].player # NoOne]
            ELSE [r EXCEPT !.player = NoOne, !.pinned = FALSE] : r \in board}

-----------------------------------------------------------------------------
(* The two mutations of the editor.                                        *)

\* Where everybody ends up once the draft is written out, by offset: through
\* each tile's slot, because a dragged base is where its slot never was.
PlacementsOf(tiles) ==
  LET manned == {t \in tiles : t.slot # NoSlot /\ assignments[t.slot] # NoOne}
      tileAt(key) == CHOOSE t \in manned : OffsetKey(t) = key
  IN [key \in Keys(manned) |->
        [player |-> assignments[tileAt(key).slot],
         pinned |-> pinned[tileAt(key).slot] = assignments[tileAt(key).slot]]]

Nobody == [player |-> NoOne, pinned |-> FALSE]

ShapeSave ==
  /\ save = Idle /\ Dirty
  /\ save' = [phase |-> "shape", layout |-> Layout(draft), carried |-> PlacementsOf(draft)]
  /\ UNCHANGED <<editorVars, server, lost, edits>>

ShapeLands ==
  /\ save.phase = "shape"
  /\ SaveLayout(save.layout)
  /\ save' = [phase |-> "read", carried |-> save.carried,
              dropped |-> {r.player : r \in Gone(save.layout)} \ {NoOne}]
  /\ UNCHANGED <<editorVars, lost, edits, others>>

ReadBack ==
  /\ save.phase = "read"
  /\ save' = [phase |-> "place", carried |-> save.carried, dropped |-> save.dropped,
              plan |-> [id \in IdsOf(board) |->
                          LET row == CHOOSE r \in board : r.slot = id
                          IN IF OffsetKey(row) \in DOMAIN save.carried
                             THEN save.carried[OffsetKey(row)] ELSE Nobody]]
  /\ UNCHANGED <<editorVars, server, lost, edits>>

\* unassigned counts who the layout call dropped; everybody carried counts as
\* put back.
PlaceLands ==
  /\ save.phase = "place"
  /\ AssignAccepts(save.plan) /\ AssignSlots(save.plan)
  /\ save' = Idle
  /\ lost' = GreaterOf(Cardinality(save.dropped) - Cardinality(DOMAIN save.carried), 0)
  /\ UNCHANGED <<editorVars, edits, others>>

PeopleSave ==
  /\ save = Idle /\ ~ Dirty /\ AssignmentsDirty
  /\ save' = [phase |-> "people", seen |-> slots,
              plan |-> [id \in IdsOf(slots) |-> [player |-> assignments[id], pinned |-> pinned[id] # NoOne]]]
  /\ UNCHANGED <<editorVars, server, lost, edits>>

PeopleLand ==
  /\ save.phase = "people"
  /\ AssignAccepts(save.plan) /\ AssignSlots(save.plan)
  /\ save' = Idle /\ lost' = 0
  /\ UNCHANGED <<editorVars, edits, others>>

\* A call is refused or never arrives, or lands and only its answer is lost;
\* either way the mutation stops where it is and the message is all there is.
SaveFails ==
  /\ save.phase # "none"
  /\ save' = Idle /\ lost' = 0
  /\ \/ save.phase = "shape" /\ SaveLayout(save.layout)
     \/ save.phase \in {"place", "people"} /\ AssignAccepts(save.plan) /\ AssignSlots(save.plan)
     \/ UNCHANGED board
  /\ UNCHANGED <<editorVars, edits, others>>

-----------------------------------------------------------------------------
(* Everybody else.                                                         *)

\* Another officer's calls, one tile or one member at a time.
OtherOfficer ==
  /\ others < MaxOthers /\ others' = others + 1
  /\ \/ \E r \in board : SaveLayout(Layout(DraftFromBoard(board \ {r})))
     \/ \E at \in Square, brush \in Brushes :
          LET tile == [dx |-> at.x - anchor.x, dy |-> at.y - anchor.y, spanX |-> brush.spanX,
                       spanY |-> brush.spanY, kind |-> brush.kind, colour |-> brush.colour, slot |-> NoSlot]
          IN /\ CanPlace(board, tile) /\ FitsOnMap(at, brush.spanX, brush.spanY)
             /\ SaveLayout(Layout(DraftFromBoard(board)) \cup {tile})
     \/ \E id \in {r.slot : r \in {b \in board : IsMemberBase(b)}}, player \in members, pin \in BOOLEAN :
          AssignSlots([s \in IdsOf(board) |->
             LET row == CHOOSE r \in board : r.slot = s
             IN IF s = id THEN [player |-> player, pinned |-> pin]
                ELSE IF row.player = player THEN Nobody
                ELSE [player |-> row.player, pinned |-> row.pinned]])
  /\ UNCHANGED <<editorVars, save, lost, edits>>

\* A read empties the tile of a member who has left; the row keeps them until
\* the next save, and has them back if they return before it.
VacateDeparted(r) == IF r.player \in members \cup {NoOne} THEN r ELSE [r EXCEPT !.player = NoOne, !.pinned = FALSE]
AsRead == {VacateDeparted(r) : r \in board}

\* An invalidated query or a realtime event has the board read again.
Refetch ==
  /\ slots # AsRead
  /\ BoardArrives(AsRead, anchor)
  /\ UNCHANGED <<board, save, lost, edits, others>>

\* Group moves, sweeps and generated shapes are moves and redraws of the same
\* kind, and are left to the drawing's own run.
Edit ==
  /\ edits < MaxEdits /\ edits' = edits + 1
  /\ \/ \E at \in Square : PickUp(at) \/ PickDown(at)
     \/ \E held \in draft, to \in Square : Move(held, to)
     \/ \E player \in Players, at \in Square : DropMember(player, at)
     \/ \E shape \in Shapes : TemplateLoad(shape)
     \/ Discard
     \/ InTheTable
  /\ UNCHANGED <<board, save, lost, others>>

\* A member leaves the alliance, or comes back.
RosterChanges == \E player \in Players :
  /\ others < MaxOthers /\ others' = others + 1
  /\ members' = IF player \in members THEN members \ {player} ELSE members \cup {player}
  /\ UNCHANGED <<draft, selection, tool, anchor, pendingAnchor, slots, people>>
  /\ UNCHANGED <<board, save, lost, edits>>

SaveInit == Init /\ board = slots /\ save = Idle /\ lost = 0 /\ edits = 0 /\ others = 0

SaveNext ==
  \/ Edit \/ Refetch \/ OtherOfficer \/ RosterChanges
  \/ ShapeSave \/ ShapeLands \/ ReadBack \/ PlaceLands
  \/ PeopleSave \/ PeopleLand \/ SaveFails

SaveSpec == SaveInit /\ [][SaveNext]_saveVars

-----------------------------------------------------------------------------
\* What the table promises of its rows, whichever calls wrote them, however
\* many of them failed half way: apart, ids their own, one place per member,
\* and a pin only where somebody stands.
BoardSound ==
  /\ board \subseteq Row /\ ApartFrom(board)
  /\ \A r, s \in board : r.slot = s.slot => r = s
  /\ \A r, s \in board : r.player = s.player /\ r.player # NoOne => r = s
  /\ \A r \in board : r.pinned => r.player # NoOne

\* A slot id never comes to mean other ground than the ground an officer saw
\* under it: the reason a call may name tiles by id.
IdsNameOneGround == \A r \in slots, b \in board : r.slot = b.slot => OffsetKey(r) = OffsetKey(b)

\* Whatever two officers save, fail to save and read again, nobody is drawn on
\* two tiles, the board keeps its keys, and an id never comes to name other
\* ground than the board has it on (0165, 0177).
BoardAndDraftSound == TypeOK /\ OneTilePerMember /\ BoardSound /\ IdsNameOneGround

\* A save that lands never sends anybody to ground the officer had not put
\* them on, whatever another officer wrote in between: a stale id is refused.
NobodyMisplaced ==
  [][/\ PlaceLands => \A r \in board' : r.player # NoOne =>
          /\ OffsetKey(r) \in DOMAIN save.carried
          /\ save.carried[OffsetKey(r)] = [player |-> r.player, pinned |-> r.pinned]
     /\ PeopleLand => \A r \in board' : r.player # NoOne =>
          \E s \in save.seen : /\ OffsetKey(s) = OffsetKey(r)
                               /\ save.plan[s.slot].player = r.player]_saveVars

\* A member whose tile was deleted, and who is on no tile after the save, is
\* reported: FormationEditor.tsx, "is reported rather than quietly dropped".
LostMembersReported ==
  [][PlaceLands => (save.dropped \ {r.player : r \in board'} # {} => lost' > 0)]_saveVars
=============================================================================
