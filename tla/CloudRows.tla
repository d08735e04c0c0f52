----------------------------- MODULE CloudRows -----------------------------
(***************************************************************************)
(* The rows of the cloud database: who inserts them, what the sync worker  *)
(* uploads and in which order, and what every delete of the program takes  *)
(* with it.  A behaviour is about one table, leaf, and the tables its row  *)
(* refers to, directly or not; one row of each is followed, so a reference *)
(* of a table to itself is never set.  PostgreSQL checks references at     *)
(* the end of a statement, cascades and clears them, and lets a trigger    *)
(* that runs before the update put a cleared reference back.               *)
(***************************************************************************)
EXTENDS CloudSchema, FiniteSetsExt, SequencesExt, TLC

VARIABLES
  leaf,      \* the table this behaviour is about
  rows,      \* the tables whose row exists
  held,      \* the optional references that are set, as <<table, column>>
  dangling,  \* those whose row is gone all the same
  captured,  \* the tables with a row waiting in the collector's outbox
  queue,     \* those the drain that is running has still to send
  purged     \* the tables whose row the retention job has removed

vars == <<leaf, rows, held, dangling, captured, queue, purged>>

BY_NAME == <<
    "player_snapshots", "player_detail_snapshots",
    "player_component_power_snapshots", "account_state_snapshots",
    "event_schedule_snapshots", "game_season_snapshots",
    "player_season_force_snapshots", "world_city_snapshots",
    "season_building_snapshots", "dispatch_mission_snapshots",
    "world_truck_snapshots", "world_viewport_snapshots",
    "alliance_snapshots", "alliance_season_score_snapshots",
    "alliance_member_snapshots", "arena_entries", "arena_snapshots",
    "alliance_contribution_snapshots", "alliance_event_times",
    "migration_config_snapshots", "migration_server_snapshots",
    "black_money_signup_snapshots", "black_money_battle_snapshots",
    "black_money_score_snapshots", "furnace_fury_scores",
    "capital_clash_scores", "player_relocations", "capital_clash_times",
    "boss_damage_scores", "boss_damage_reads", "shop_pack_snapshots",
    "shop_pack_catalogs", "shop_listing_snapshots",
    "battle_report_ingests", "activity_facts">>
\* The tables sent by the sync worker, in the order it sends them.
TABLE_ORDER == <<
    "player_snapshots", "player_detail_snapshots",
    "player_component_power_snapshots", "account_state_snapshots",
    "event_schedule_snapshots", "game_season_snapshots",
    "player_season_force_snapshots", "world_city_snapshots",
    "season_building_snapshots", "dispatch_mission_snapshots",
    "world_truck_snapshots", "world_viewport_snapshots",
    "alliance_snapshots", "alliance_season_score_snapshots",
    "alliance_member_snapshots", "arena_snapshots", "arena_entries",
    "alliance_contribution_snapshots", "alliance_event_times",
    "migration_config_snapshots", "migration_server_snapshots",
    "black_money_signup_snapshots", "black_money_battle_snapshots",
    "black_money_score_snapshots", "furnace_fury_scores",
    "capital_clash_scores", "player_relocations", "capital_clash_times",
    "boss_damage_scores", "boss_damage_reads", "shop_pack_snapshots",
    "shop_pack_catalogs", "shop_listing_snapshots",
    "battle_report_ingests", "activity_facts">>

Uploaded == ToSet(TABLE_ORDER)
Before(t, u) == \E i, j \in DOMAIN TABLE_ORDER :
                  i < j /\ TABLE_ORDER[i] = t /\ TABLE_ORDER[j] = u

\* What the worker creates itself before it sends a table: the collector, the
\* servers named, the players and the alliances referred to.
Ensured == {"collectors", "servers", "players", "alliances"}

-----------------------------------------------------------------------------
(* References.                                                             *)

Targets(t) == {ref.to : ref \in Tables[t]}
Required(t) == {ref.to : ref \in {r \in Tables[t] : ~r.optional}}
Optional(t) == {ref \in Tables[t] : ref.optional}

\* No chain of references is longer.
Depth == 6

World(t) ==
  LET grow[n \in 0 .. Depth] ==
        IF n = 0 THEN {t}
        ELSE LET before == grow[n - 1]
             IN before \cup UNION {Targets(u) : u \in before}
  IN grow[Depth]
Worlds == [t \in DOMAIN Tables |-> World(t)]

Holds(t, ref) ==
  /\ t \in rows
  /\ ref.optional => <<t, ref.column>> \in held \ dangling

\* An actor column that a trigger stamps when the row is written and puts back
\* when it is updated: an author who could be written would be no author.
Stamped == {<<"announcements", "created_by">>, <<"guides", "created_by">>,
            <<"post_comments", "author_user_id">>}
NoneReleased == {}
\* The one trigger that lets the database clear what it has to clear.
Released == {<<"post_comments", "author_user_id">>}
Pinned == Stamped \ Released

-----------------------------------------------------------------------------
(* Deleting.                                                               *)

\* The rows that are part of one of those of B.
Dragged(B) ==
  {t \in rows : \E ref \in Tables[t] :
     Holds(t, ref) /\ ref.onDelete = "cascade" /\ ref.to \in B}

\* The rows that go when those of S go.
Taken(S) ==
  LET grow[n \in 0 .. Depth] ==
        IF n = 0 THEN S \cap rows
        ELSE LET before == grow[n - 1] IN before \cup Dragged(before)
  IN grow[Depth]

\* The tables that hold on to a row that would go.
RefusedBy(S) ==
  {t \in rows \ Taken(S) : \E ref \in Tables[t] :
     Holds(t, ref) /\ ref.onDelete = "keep" /\ ref.to \in Taken(S)}

\* The references to be cleared, and those of them a trigger puts back.
Cleared(S) ==
  {h \in held \ dangling :
     /\ h[1] \in rows \ Taken(S)
     /\ \E ref \in Tables[h[1]] :
          ref.column = h[2] /\ ref.onDelete = "clear" /\ ref.to \in Taken(S)}
PutBack(S) == Cleared(S) \cap Pinned

Of(S, refs) == {h \in refs : h[1] \in S}

\* A reference that is put back refuses the delete, or stays and names nobody,
\* depending on whether the row was written in the same transaction.
Delete(S) ==
  /\ Taken(S) # {}
  /\ RefusedBy(S) = {}
  /\ rows' = rows \ Taken(S)
  /\ held' = Of(rows', held) \ (Cleared(S) \ Pinned)
  /\ dangling' = Of(rows', dangling \cup PutBack(S))
  /\ UNCHANGED <<leaf, captured, queue>>

\* Leaving, and being removed: the person's claim, and the account.  The claim
\* of the behaviour is theirs or somebody else's.
Departures == {{"app_users"}, {"app_users", "player_claims"}}
Leave ==
  /\ "app_users" \in rows
  /\ \E S \in Departures : Delete(S)
  /\ UNCHANGED purged

\* A delete of one row that a page, a function or a trigger performs.
Deletable == {
    "guides", "announcements", "favourites", "alliance_settings", "app_settings",
    "notification_channels", "tab_visibility", "hive_formations",
    "hive_formation_slots", "hive_map_features", "hive_formation_templates",
    "hive_formation_template_slots", "schedule_events",
    "schedule_categories", "schedule_reminders", "migration_candidates",
    "migration_candidate_columns", "game_pack_variants", "game_item_names",
    "game_pack_names", "event_names", "gift_codes", "gift_code_claims",
    "gift_claim_exclusions", "gift_extra_players", "gift_player_keys",
    "season_buildings", "attendance_event_days", "event_attendance",
    "participation_thresholds", "ui_overrides", "user_players",
    "alliance_memberships", "join_code_attempts", "player_ranks",
    "collector_heartbeats", "member_roster_current",
    "alliance_latest_current", "alliance_growth_current",
    "player_season_buildings_current"}
DeleteRow ==
  /\ \E t \in Deletable : Delete({t})
  /\ UNCHANGED purged

\* The daily retention job.
Aged == {"player_snapshots", "player_component_power_snapshots",
         "player_detail_snapshots", "alliance_member_snapshots",
         "alliance_snapshots", "arena_snapshots", "world_city_snapshots"}
retention_purge ==
  \E t \in Aged : Delete({t}) /\ purged' = purged \cup {t}

\* Deleting the login, in the console of the authentication service.
DeleteLogin == Delete({"auth_users"}) /\ UNCHANGED purged

-----------------------------------------------------------------------------
(* Inserting.                                                              *)

\* Of the columns of which exactly one is set, one is.
FitsChecks(t, refs) ==
  LET one == {ref \in Tables[t] : ref.oneOf}
  IN one # {} => Cardinality(refs \cap one) = 1

Put(t, refs) ==
  /\ t \notin rows
  /\ Required(t) \subseteq rows
  /\ {ref.to : ref \in refs} \subseteq rows
  /\ FitsChecks(t, refs)
  /\ rows' = rows \cup {t}
  /\ held' = held \cup {<<t, ref.column>> : ref \in refs}
  /\ UNCHANGED <<leaf, dangling, purged>>

Insert(t) ==
  /\ t \notin Uploaded
  /\ \E refs \in SUBSET Optional(t) : Put(t, refs)
  /\ UNCHANGED <<captured, queue>>

\* One message is read into rows of one or two tables, recorded together.
Together(t) == {t} \cup (Targets(t) \cap Uploaded)
Capture ==
  /\ leaf \in Uploaded \ (rows \cup captured)
  /\ captured' = captured \cup (Together(leaf) \ rows)
  /\ UNCHANGED <<leaf, rows, held, dangling, queue, purged>>

\* A drain takes what is due: a table that failed waits for its time.
StartDrain ==
  /\ queue = {}
  /\ queue' \in (SUBSET captured) \ {{}}
  /\ UNCHANGED <<leaf, rows, held, dangling, captured, purged>>

First == CHOOSE t \in queue : \A u \in queue \ {t} : Before(t, u)
Missing(t) == Required(t) \ (rows \cup Ensured)

\* The worker resolves the rows of a table and sends them.
Upload ==
  /\ queue # {} /\ Missing(First) = {}
  /\ \E refs \in SUBSET {ref \in Optional(First) : ref.to \in Ensured} :
       LET named == Ensured \cap (Required(First) \cup {ref.to : ref \in refs})
           made == named \cup UNION {Required(u) : u \in named}
       IN /\ FitsChecks(First, refs)
          /\ rows' = rows \cup made \cup {First}
          /\ held' = held \cup {<<First, ref.column>> : ref \in refs}
  /\ captured' = captured \ {First}
  /\ queue' = queue \ {First}
  /\ UNCHANGED <<leaf, dangling, purged>>

\* A table that fails, refused or not answered, is skipped; a line that is
\* down ends the drain.
UploadFails ==
  /\ queue # {}
  /\ queue' \in {queue \ {First}, {}}
  /\ UNCHANGED <<leaf, rows, held, dangling, captured, purged>>

-----------------------------------------------------------------------------

Init ==
  /\ leaf \in DOMAIN Tables
  /\ rows = {} /\ held = {} /\ dangling = {}
  /\ captured = {} /\ queue = {} /\ purged = {}

Next ==
  \/ \E t \in Worlds[leaf] : Insert(t)
  \/ Capture
  \/ StartDrain
  \/ Upload
  \/ UploadFails
  \/ DeleteRow
  \/ Leave
  \/ retention_purge
  \/ DeleteLogin

Spec == Init /\ [][Next]_vars

-----------------------------------------------------------------------------
(* Properties.                                                             *)

\* Types, and references that do not lie: a column that may not be null, and
\* an optional one that is set, refer to a row that exists.  The exceptions
\* are the authors of notices and guides, whose triggers put back what the
\* database clears.
ReferencesHold ==
  /\ leaf \in DOMAIN Tables
  /\ rows \subseteq Worlds[leaf] /\ captured \subseteq Uploaded
  /\ queue \subseteq captured /\ purged \subseteq Aged
  /\ \A t \in rows : Required(t) \subseteq rows
  /\ \A h \in held : h[1] \in rows
  /\ \A h \in held : \A ref \in Optional(h[1]) :
       ref.column = h[2] => ref.to \in rows \/ h \in dangling
  /\ dangling \subseteq {<<"announcements", "created_by">>,
                         <<"guides", "created_by">>}

\* No delete of the program is refused by a row that holds on to what would
\* go, nor by a trigger that puts a reference back: whatever an account, a
\* formation, a code or a snapshot has come to be referred to by (0094, 0122).
DeletesGoThrough ==
  /\ \A S \in Departures \cup {{t} : t \in Deletable \cup Aged} :
       S \cap rows # {} => RefusedBy(S) = {} /\ PutBack(S) = {}
  /\ RefusedBy({"auth_users"}) \subseteq
       {"alliance_settings", "hive_formations", "hive_formation_slots",
        "hive_formation_templates", "hive_map_features"}

\* What goes with what.  A person who leaves takes their memberships,
\* characters, activity and notices of replies, and nothing they made and
\* nothing their login keeps (0094: "Their login and their favourites
\* survive; their posts lose their author"); a formation takes its tiles, a
\* template its own, an event its reminders, a code its claims, a read of the
\* arena its entries; a guide or a notice the comments below it, with their
\* notices of replies, who read it and who kept it (0079, 0113, 0116, 0119);
\* nothing else that is deleted takes anything.
OfAPost == {"post_comments", "comment_notifications", "favourites", "post_reads", "post_views"}
Parts == [
    guides |-> OfAPost,
    announcements |-> OfAPost,
    hive_formations |-> {"hive_formation_slots"},
    hive_formation_templates |-> {"hive_formation_template_slots"},
    schedule_events |-> {"schedule_reminders"},
    gift_codes |-> {"gift_code_claims"},
    arena_snapshots |-> {"arena_entries", "arena_entry_heroes"},
    app_users |-> {"alliance_memberships", "user_players",
                   "activity_events", "comment_notifications"}]
TakesOnlyItsOwn ==
  \A S \in Departures \cup {{t} : t \in Deletable \cup Aged} :
    S \cap rows # {} =>
      Taken(S) \subseteq S \cup UNION {Parts[t] : t \in S \cap DOMAIN Parts}

\* A table that is sent finds every row it refers to: the worker has created
\* it or sent it before, unless its own upload has failed and waits, it has
\* aged out since, or a catalogue that is filled by hand lacks the key
\* (TABLE_ORDER: parents before children).
Catalogues == {"metric_registry", "component_metrics"}
UploadsMeetTheirParents ==
  queue # {} =>
    Missing(First) \subseteq (captured \ queue) \cup purged \cup Catalogues

\* Claim of 0094: "All nine become `set null`": when a login is deleted, no
\* row keeps naming it.
AllNineBecomeNull == dangling = {}
=============================================================================
