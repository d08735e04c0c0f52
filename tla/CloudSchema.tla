---------------------------- MODULE CloudSchema ----------------------------
(***************************************************************************)
(* The tables of the cloud database as far as their rows depend on each    *)
(* other.  One definition per table: the references its rows hold, with    *)
(* the column, the table referred to, whether the column may be null, and  *)
(* what deleting the row referred to does to them.  The columns and their  *)
(* nullability are those of the generated types the program is compiled    *)
(* against; the generated types do not carry the action on deletion, which *)
(* is the one of the last migration that states it.  A reference to the    *)
(* accounts of the authentication service is a reference to "auth_users".  *)
(***************************************************************************)

Reference(column, to, optional, onDelete) ==
    [column |-> column, to |-> to, optional |-> optional,
     onDelete |-> onDelete, oneOf |-> FALSE]

\* on delete cascade: the row is part of what it refers to.
Part(column, to) == Reference(column, to, FALSE, "cascade")
PartIf(column, to) == Reference(column, to, TRUE, "cascade")
\* The same, of several columns exactly one of which is set (a CHECK).
PartOfOne(column, to) == [PartIf(column, to) EXCEPT !.oneOf = TRUE]
\* on delete set null: the row outlives what it refers to.
Clears(column, to) == Reference(column, to, TRUE, "clear")
\* no action: what the row refers to cannot be deleted before it.
Needs(column, to) == Reference(column, to, FALSE, "keep")
Names(column, to) == Reference(column, to, TRUE, "keep")

\* Every observed row names the collector that saw it and the server it was
\* seen from.
Collected == {Needs("collector_id", "collectors"),
              Needs("collected_from_server_id", "servers")}

account_state_manual == {Part("player_id", "players")}
account_state_snapshots ==
    Collected \cup {Names("player_id", "players"),
                    Needs("server_id", "servers")}
activity_events ==
    {PartIf("alliance_id", "alliances"),
     Part("user_id", "app_users")}
activity_facts ==
    {Names("alliance_id", "alliances"),
     Needs("metric_key", "metric_registry"),
     Names("player_id", "players")}
alliance_board_readings == {}
alliance_contribution_snapshots ==
    Collected \cup {Names("alliance_id", "alliances"),
                    Names("player_id", "players"),
                    Needs("server_id", "servers")}
alliance_event_times == Collected \cup {Names("alliance_id", "alliances")}
alliance_growth_current == {}
alliance_latest_current == {}
alliance_member_snapshots ==
    Collected \cup {Needs("alliance_id", "alliances"),
                    Names("player_id", "players"),
                    Needs("server_id", "servers")}
alliance_memberships ==
    {Part("alliance_id", "alliances"),
     Part("user_id", "app_users")}
alliance_names == {Needs("alliance_id", "alliances")}
alliance_season_score_snapshots ==
    Collected \cup {Names("alliance_id", "alliances"),
                    Needs("server_id", "servers")}
alliance_settings ==
    {Part("alliance_id", "alliances"),
     Names("updated_by", "auth_users")}
alliance_snapshots ==
    Collected \cup {Needs("alliance_id", "alliances"),
                    Needs("server_id", "servers")}
alliances ==
    {Names("leader_player_id", "players"),
     Needs("server_id", "servers")}
announcements ==
    {PartIf("alliance_id", "alliances"),
     Clears("created_by", "auth_users")}
app_settings == {Clears("updated_by", "auth_users")}
app_users == {Clears("player_id", "players"), Part("user_id", "auth_users")}
arena_entries ==
    Collected \cup {Part("arena_snapshot_id", "arena_snapshots"),
                    Names("player_id", "players"),
                    Needs("server_id", "servers")}
arena_entry_heroes ==
    {Part("arena_entry_id", "arena_entries"),
     Needs("collected_from_server_id", "servers"),
     Names("player_id", "players"),
     Needs("server_id", "servers")}
arena_matches ==
    Collected \cup {Names("player_id", "players"),
                    Needs("server_id", "servers")}
arena_snapshots == Collected \cup {Needs("server_id", "servers")}
attendance_event_days ==
    {PartIf("alliance_id", "alliances"),
     Needs("kind", "attendance_event_kinds")}
attendance_event_kinds == {}
audit_logs == {Clears("actor_user_id", "app_users")}
battle_report_ingests == Collected
black_money_battle_snapshots ==
    Collected \cup {Names("alliance_id", "alliances"),
                    Needs("server_id", "servers")}
black_money_score_snapshots ==
    Collected \cup {Names("alliance_id", "alliances"),
                    Names("player_id", "players"),
                    Needs("server_id", "servers")}
black_money_signup_snapshots ==
    Collected \cup {Names("player_id", "players"),
                    Needs("server_id", "servers")}
boss_damage_reads == Collected
boss_damage_scores ==
    Collected \cup {Names("player_id", "players"),
                    Needs("server_id", "servers")}
capabilities == {}
capital_clash_scores ==
    Collected \cup {Names("player_id", "players"),
                    Needs("server_id", "servers")}
capital_clash_times == Collected
capital_clash_window_overrides == {}
collector_heartbeats == {Needs("collector_id", "collectors")}
collectors == {}
command_request_shapes == {Names("collector_id", "collectors")}
comment_notifications ==
    {Part("comment_id", "post_comments"),
     Part("user_id", "app_users")}
component_metrics == {}
data_change_notifications == {Names("server_id", "servers")}
dispatch_mission_snapshots == Collected
event_attendance ==
    {PartIf("alliance_id", "alliances"),
     Needs("kind", "attendance_event_kinds"),
     Part("player_id", "players")}
event_names == {Clears("updated_by", "auth_users")}
event_schedule_snapshots == Collected \cup {Needs("server_id", "servers")}
favourites ==
    {PartOfOne("alliance_id", "alliances"),
     PartOfOne("announcement_id", "announcements"),
     PartOfOne("guide_id", "guides"),
     PartOfOne("player_id", "players"),
     PartOfOne("server_id", "servers"),
     Part("user_id", "auth_users")}
furnace_fury_scores ==
    Collected \cup {Names("alliance_id", "alliances"),
                    Names("player_id", "players"),
                    Needs("server_id", "servers")}
game_dispatch_missions == {}
game_effects == {}
game_event_calendar == {}
game_event_scores == {Part("event_id", "game_event_themes")}
game_event_themes == {}
game_hero_gear == {}
game_icon_refs == {}
game_icons == {}
game_item_names == {Clears("updated_by", "auth_users")}
game_item_values == {Clears("updated_by", "auth_users")}
game_items == {}
game_pack_names == {}
game_pack_picks == {}
game_pack_variants == {}
game_research_tabs == {}
game_resources == {}
game_season_snapshots == Collected
game_strings == {}
game_train_stations == {}
game_upgrade_steps == {}
gift_claim_exclusions == {Part("alliance_id", "alliances")}
gift_code_claims ==
    {Part("alliance_id", "alliances"),
     Part("code_id", "gift_codes")}
gift_codes == {}
gift_extra_players == {Part("alliance_id", "alliances")}
gift_player_keys == {Part("alliance_id", "alliances")}
guides ==
    {PartIf("alliance_id", "alliances"),
     Clears("created_by", "auth_users")}
heroes == {}
hive_formation_slots ==
    {Names("assigned_by", "auth_users"),
     Part("formation_id", "hive_formations"),
     Clears("player_id", "players")}
hive_formation_template_slots ==
    {Part("template_id", "hive_formation_templates")}
hive_formation_templates ==
    {PartIf("alliance_id", "alliances"),
     Names("created_by", "auth_users")}
hive_formations ==
    {PartIf("alliance_id", "alliances"),
     Names("created_by", "auth_users"),
     Needs("server_id", "servers")}
hive_map_features == {Names("created_by", "auth_users")}
join_code_attempts == {Part("user_id", "auth_users")}
joinCodesKept ==
    {PartIf("alliance_id", "alliances"),
     Names("created_by", "app_users")}
join_codes ==
    {PartIf("alliance_id", "alliances"),
     Clears("created_by", "app_users")}
member_roster_current ==
    {PartIf("alliance_id", "alliances"),
     Part("player_id", "players")}
metric_registry == {}
migration_candidate_columns == {}
migration_candidates == {Clears("desired_alliance_id", "alliances")}
migration_config_snapshots == Collected
migration_events == {}
migration_server_snapshots == Collected
notification_channels ==
    {PartIf("alliance_id", "alliances"),
     Clears("updated_by", "auth_users")}
notification_outbox == {}
participation_thresholds == {PartIf("alliance_id", "alliances")}
pets == {}
player_claims ==
    {PartIf("alliance_id", "alliances"),
     Clears("decided_by", "app_users"),
     Part("player_id", "players"),
     Part("user_id", "auth_users")}
player_component_power_snapshots ==
    Collected \cup {Needs("metric", "component_metrics"),
                    Names("player_id", "players"),
                    Needs("server_id", "servers")}
player_contributions == {Part("player_id", "players")}
player_detail_snapshots ==
    Collected \cup {Needs("player_id", "players"),
                    Needs("server_id", "servers")}
player_month_cards == {Needs("player_id", "players")}
player_names == {Needs("player_id", "players")}
player_presence == {Part("player_id", "players")}
player_ranks ==
    {PartIf("alliance_id", "alliances"),
     Part("player_id", "players"),
     Clears("set_by", "auth_users")}
player_relocations ==
    Collected \cup {Names("player_id", "players"),
                    Needs("server_id", "servers")}
player_season_buildings_current ==
    {Part("player_id", "players"),
     Needs("server_id", "servers")}
player_season_force_snapshots ==
    Collected \cup {Names("player_id", "players"),
                    Needs("server_id", "servers")}
player_snapshots ==
    Collected \cup {Needs("player_id", "players"),
                    Needs("server_id", "servers")}
player_vip == {Part("player_id", "players")}
players ==
    {Names("current_alliance_id", "alliances"),
     Needs("server_id", "servers")}
postCommentsOfAuthor ==
    {PartOfOne("announcement_id", "announcements"),
     PartIf("author_user_id", "app_users"),
     PartOfOne("guide_id", "guides"),
     PartIf("parent_comment_id", "post_comments")}
post_comments ==
    {PartOfOne("announcement_id", "announcements"),
     Clears("author_user_id", "app_users"),
     PartOfOne("guide_id", "guides"),
     PartIf("parent_comment_id", "post_comments")}
post_reads ==
    {PartOfOne("announcement_id", "announcements"),
     PartOfOne("guide_id", "guides"),
     Part("user_id", "auth_users")}
post_views ==
    {PartOfOne("announcement_id", "announcements"),
     PartOfOne("guide_id", "guides")}
rank_period_snapshots ==
    {PartIf("alliance_id", "alliances"),
     Part("player_id", "players")}
refresh_jobs ==
    {Names("collector_id", "collectors"),
     Clears("requested_by", "app_users")}
role_permissions ==
    {PartIf("alliance_id", "alliances"),
     Part("capability", "capabilities")}
schedule_categories ==
    {PartIf("alliance_id", "alliances"),
     Clears("channel", "notification_channels")}
schedule_events ==
    {PartIf("alliance_id", "alliances"),
     Clears("category", "schedule_categories"),
     Clears("created_by", "app_users")}
schedule_reminders == {Part("schedule_event_id", "schedule_events")}
schema_observations == {Names("collector_id", "collectors")}
season_building_snapshots ==
    Collected \cup {Names("player_id", "players"),
                    Needs("server_id", "servers")}
season_buildings == {Part("season_id", "seasons")}
seasons == {}
servers == {Names("merged_into_server_id", "servers")}
shop_listing_snapshots == Collected \cup {Needs("server_id", "servers")}
shop_pack_catalogs == Collected \cup {Needs("server_id", "servers")}
shop_pack_snapshots == Collected \cup {Needs("server_id", "servers")}
tab_visibility == {}
ui_overrides == {}
user_players == {Part("player_id", "players"), Part("user_id", "app_users")}
workflow_runs ==
    {Needs("collector_id", "collectors"),
     Names("refresh_job_id", "refresh_jobs")}
world_city_snapshots ==
    Collected \cup {Names("player_id", "players"),
                    Needs("server_id", "servers")}
world_truck_snapshots == Collected
world_viewport_snapshots == Collected \cup {Needs("server_id", "servers")}

Tables == [
    account_state_manual |-> account_state_manual, account_state_snapshots |->
    account_state_snapshots, activity_events |-> activity_events,
    activity_facts |-> activity_facts, alliance_board_readings |->
    alliance_board_readings, alliance_contribution_snapshots |->
    alliance_contribution_snapshots, alliance_event_times |->
    alliance_event_times, alliance_growth_current |-> alliance_growth_current,
    alliance_latest_current |-> alliance_latest_current,
    alliance_member_snapshots |-> alliance_member_snapshots,
    alliance_memberships |-> alliance_memberships, alliance_names |->
    alliance_names, alliance_season_score_snapshots |->
    alliance_season_score_snapshots, alliance_settings |-> alliance_settings,
    alliance_snapshots |-> alliance_snapshots, alliances |-> alliances,
    announcements |-> announcements, app_settings |-> app_settings, app_users
    |-> app_users, arena_entries |-> arena_entries, arena_entry_heroes |->
    arena_entry_heroes, arena_matches |-> arena_matches, arena_snapshots |->
    arena_snapshots, attendance_event_days |-> attendance_event_days,
    attendance_event_kinds |-> attendance_event_kinds, audit_logs |->
    audit_logs, battle_report_ingests |-> battle_report_ingests,
    black_money_battle_snapshots |-> black_money_battle_snapshots,
    black_money_score_snapshots |-> black_money_score_snapshots,
    black_money_signup_snapshots |-> black_money_signup_snapshots,
    boss_damage_reads |-> boss_damage_reads, boss_damage_scores |->
    boss_damage_scores, capabilities |-> capabilities, capital_clash_scores
    |-> capital_clash_scores, capital_clash_times |-> capital_clash_times,
    capital_clash_window_overrides |-> capital_clash_window_overrides,
    collector_heartbeats |-> collector_heartbeats, collectors |-> collectors,
    command_request_shapes |-> command_request_shapes, comment_notifications
    |-> comment_notifications, component_metrics |-> component_metrics,
    data_change_notifications |-> data_change_notifications,
    dispatch_mission_snapshots |-> dispatch_mission_snapshots,
    event_attendance |-> event_attendance, event_names |-> event_names,
    event_schedule_snapshots |-> event_schedule_snapshots, favourites |->
    favourites, furnace_fury_scores |-> furnace_fury_scores,
    game_dispatch_missions |-> game_dispatch_missions, game_effects |->
    game_effects, game_event_calendar |-> game_event_calendar,
    game_event_scores |-> game_event_scores, game_event_themes |->
    game_event_themes, game_hero_gear |-> game_hero_gear, game_icon_refs |->
    game_icon_refs, game_icons |-> game_icons, game_item_names |->
    game_item_names, game_item_values |-> game_item_values, game_items |->
    game_items, game_pack_names |-> game_pack_names, game_pack_picks |->
    game_pack_picks, game_pack_variants |-> game_pack_variants,
    game_research_tabs |-> game_research_tabs, game_resources |->
    game_resources, game_season_snapshots |-> game_season_snapshots,
    game_strings |-> game_strings, game_train_stations |->
    game_train_stations, game_upgrade_steps |-> game_upgrade_steps,
    gift_claim_exclusions |-> gift_claim_exclusions, gift_code_claims |->
    gift_code_claims, gift_codes |-> gift_codes, gift_extra_players |->
    gift_extra_players, gift_player_keys |-> gift_player_keys, guides |->
    guides, heroes |-> heroes, hive_formation_slots |-> hive_formation_slots,
    hive_formation_template_slots |-> hive_formation_template_slots,
    hive_formation_templates |-> hive_formation_templates, hive_formations |->
    hive_formations, hive_map_features |-> hive_map_features,
    join_code_attempts |-> join_code_attempts, join_codes |-> join_codes,
    member_roster_current |-> member_roster_current, metric_registry |->
    metric_registry, migration_candidate_columns |->
    migration_candidate_columns, migration_candidates |->
    migration_candidates, migration_config_snapshots |->
    migration_config_snapshots, migration_events |-> migration_events,
    migration_server_snapshots |-> migration_server_snapshots,
    notification_channels |-> notification_channels, notification_outbox |->
    notification_outbox, participation_thresholds |->
    participation_thresholds, pets |-> pets, player_claims |-> player_claims,
    player_component_power_snapshots |-> player_component_power_snapshots,
    player_contributions |-> player_contributions, player_detail_snapshots |->
    player_detail_snapshots, player_month_cards |-> player_month_cards,
    player_names |-> player_names, player_presence |-> player_presence,
    player_ranks |-> player_ranks, player_relocations |-> player_relocations,
    player_season_buildings_current |-> player_season_buildings_current,
    player_season_force_snapshots |-> player_season_force_snapshots,
    player_snapshots |-> player_snapshots, player_vip |-> player_vip, players
    |-> players, post_comments |-> post_comments, post_reads |-> post_reads,
    post_views |-> post_views, rank_period_snapshots |->
    rank_period_snapshots, refresh_jobs |-> refresh_jobs, role_permissions |->
    role_permissions, schedule_categories |-> schedule_categories,
    schedule_events |-> schedule_events, schedule_reminders |->
    schedule_reminders, schema_observations |-> schema_observations,
    season_building_snapshots |-> season_building_snapshots, season_buildings
    |-> season_buildings, seasons |-> seasons, servers |-> servers,
    shop_listing_snapshots |-> shop_listing_snapshots, shop_pack_catalogs |->
    shop_pack_catalogs, shop_pack_snapshots |-> shop_pack_snapshots,
    tab_visibility |-> tab_visibility, ui_overrides |-> ui_overrides,
    user_players |-> user_players, workflow_runs |-> workflow_runs,
    world_city_snapshots |-> world_city_snapshots, world_truck_snapshots |->
    world_truck_snapshots, world_viewport_snapshots |->
    world_viewport_snapshots,
    auth_users |-> {}]

=============================================================================
