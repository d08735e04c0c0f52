--------------------------- MODULE DashboardScreens ---------------------------
(***************************************************************************)
(* The queries about what happens: events, attendance, the hive, the map,  *)
(* the season, the migration, the planner and the shop; and all of them.   *)
(***************************************************************************)
EXTENDS AllianceScreens

-----------------------------------------------------------------------------
(* Events, participation, schedule. *)

CalendarQuery == Screen(<<"event-calendar">>, {"event_names"})
EventBoardQuery == Screen(<<"event-board">>, {"attendance_event_days", "event_attendance",
    "alliance_member_snapshots", "world_city_snapshots"})
useCapturedTimes == Screen(<<"event-guide", "captured-times">>, {"schedule_events"})
useDuelBoard == Screen(<<"event-guide", "duel-board">>, {"alliance_contribution_snapshots"})
FrankieQuery == Screen(<<"frankie-damage">>, {"event_attendance", "alliance_member_snapshots"})
AttendanceDayQuery == Screen(<<"event-attendance">>, {"event_attendance"})
EventDaysQuery == Screen(<<"attendance-days">>, {"attendance_event_days"})
TickedDaysQuery == Screen(<<"attendance-ticked-days">>, {"event_attendance"})
ParticipationBarsQuery == Screen(<<"participation-bars">>, {"participation_thresholds"})
ParticipationQuery == Screen(<<"participation">>, {"alliance_contribution_snapshots",
    "alliance_member_snapshots", "player_snapshots", "season_building_snapshots",
    "world_city_snapshots", "attendance_event_days", "event_attendance",
    "black_money_signup_snapshots", "black_money_battle_snapshots",
    "black_money_score_snapshots"})
EventKindsQuery == Kept(<<"attendance-kinds">>, {"attendance_event_kinds"})
useScheduleEvents == Screen(<<"schedule", "events">>, {"schedule_events"})
useScheduleCategories == Screen(<<"schedule", "categories">>, {"schedule_categories"})
BattleOpponentsQuery == Screen(<<"blackMoney", "opponents">>, {"black_money_signup_snapshots",
    "black_money_battle_snapshots", "black_money_score_snapshots"})
MemberMissesQuery == Screen(<<"blackMoney", "misses">>, {"black_money_signup_snapshots",
    "black_money_battle_snapshots", "black_money_score_snapshots"})
ScoreHistoryQuery == Screen(<<"blackMoney", "history">>, {"black_money_signup_snapshots",
    "black_money_battle_snapshots", "black_money_score_snapshots"})
BattleMembersQuery == Screen(<<"blackMoney", "members">>, {"black_money_signup_snapshots",
    "black_money_battle_snapshots", "black_money_score_snapshots"})
BattlesQuery == Screen(<<"blackMoney", "battles">>, {"black_money_signup_snapshots",
    "black_money_battle_snapshots", "black_money_score_snapshots"})

(* Hive, map, season. *)

useFormations == Screen(<<"hive", "formations">>, {"hive_formations"})
useFormationBoard == Screen(<<"hive", "board">>, {"hive_formations", "hive_formation_slots",
    "alliance_member_snapshots", "player_snapshots"})
useAssignableMembers == Screen(<<"hive", "members">>, {"alliance_member_snapshots",
    "player_snapshots"})
useOccupiedTiles == Screen(<<"hive", "occupied">>, {"world_city_snapshots"})
useMapFeatures == Screen(<<"hive", "features">>, {"hive_map_features"})
useTemplates == Screen(<<"hive", "templates">>, {"hive_formation_templates",
    "hive_formation_template_slots"})
useAtlas == Screen(<<"map", "atlas">>, {"world_city_snapshots", "alliance_member_snapshots"})
useScannedServers == Screen(<<"map", "servers">>, {"world_city_snapshots"})
fetchBuildingGrid == {"season_building_snapshots"}
SeasonBuildingsQuery == Screen(<<"seasonBoard", "buildings">>, fetchBuildingGrid)
PastBuildingsQuery == Screen(<<"seasonBoard", "past_buildings">>, fetchBuildingGrid)
AllianceScoreQuery == Screen(<<"seasonBoard", "alliance_score">>,
    {"alliance_season_score_snapshots"})
PlayerForceQuery == Screen(<<"seasonBoard", "player_force">>,
    {"player_season_force_snapshots"})
useTrucks == Polled(<<"map", "trucks">>, {"world_truck_snapshots"})
useMissions == Polled(<<"map", "missions">>, {"dispatch_mission_snapshots"})

(* Migration. *)

MigrationEventsQuery == Screen(<<"migration", "events">>, {"migration_events"})
MigrationServersQuery == Screen(<<"migration", "servers">>, {"migration_events",
    "alliance_member_snapshots", "player_snapshots"})
MigrationFlowsQuery == Screen(<<"migration", "flows">>, {"migration_events",
    "alliance_member_snapshots", "player_snapshots"})
MigrationTopQuery == Screen(<<"migration", "top">>, {"migration_events",
    "alliance_member_snapshots", "player_snapshots"})
MigrationAlliancesQuery == Screen(<<"migration", "alliances">>, {"migration_events",
    "alliance_member_snapshots", "player_snapshots", "alliance_snapshots"})
MigrationAllianceStatsQuery == Screen(<<"migration", "alliance-stats">>,
    {"alliance_member_snapshots", "player_snapshots"})
MigrationServerStatsQuery == Screen(<<"migration", "server-stats">>,
    {"alliance_member_snapshots", "player_snapshots"})
MigrationServerTopQuery == Screen(<<"migration", "server-top">>, {"player_snapshots"})
MoversQuery == Screen(<<"migration", "movers">>, {"alliance_member_snapshots",
    "player_snapshots"})
FreshnessQuery == Screen(<<"migration", "freshness">>, {"player_snapshots"})
TierBoardQuery == Screen(<<"migration", "tiers">>, {"player_snapshots"})
BoardInfoQuery == Screen(<<"migration", "board">>, {"player_snapshots"})
CandidatesQuery == Screen(<<"migration", "candidates-saved">>, {"migration_candidates"})
CandidateColumnsQuery == Screen(<<"migration", "candidates-saved", "columns">>,
    {"migration_candidate_columns"})
CandidateLookupQuery == Screen(<<"migration", "candidates-lookup">>, {"player_snapshots",
    "player_component_power_snapshots", "heroes", "pets"})
CandidateSeenQuery == Screen(<<"migration", "candidates-seen">>, {"player_snapshots",
    "player_component_power_snapshots", "heroes", "pets"})
MigrationQuotasQuery == Screen(<<"migration", "quotas">>, {"migration_server_snapshots"})

(* Planner, shop, gifts, catalogues. *)

EnterableQuery == Screen(<<"planner-enterable">>, {"user_players", "role_permissions"}
  \cup RoleTables)
PlannerHeroesQuery == Screen(<<"planner-heroes">>, {"heroes"})
PlannerAccountsQuery == Screen(<<"planner-accounts">>, {"account_state_manual"})
PlannerNamesQuery == Screen(<<"planner-names">>, {"heroes"})
useHeroes == Screen(<<"heroes">>, {"heroes"})
usePets == Screen(<<"pets">>, {"pets"})
PacksQuery == Screen(<<"shop-packs">>, {"game_pack_names", "game_item_names",
    "game_item_values"})
VariantsQuery == Screen(<<"shop-variants">>, {"game_pack_variants"})
ListingsQuery == Screen(<<"shop-listings">>, {"game_item_names", "game_item_values"})
ItemValuesQuery == Screen(<<"shop-values">>, {"game_item_names", "game_item_values"})
GiftCodesQuery == Polled(<<"gift", "codes">>, {"gift_codes", "gift_code_claims",
    "gift_claim_exclusions", "gift_extra_players", "alliance_member_snapshots"})
GiftMembersQuery == Polled(<<"gift", "members">>, {"gift_code_claims", "gift_claim_exclusions",
    "gift_extra_players", "gift_player_keys", "alliance_member_snapshots"})
GiftRunnerQuery == Polled(<<"gift", "runner">>, {"gift_runner"})

-----------------------------------------------------------------------------

AllScreens ==
  {MineQuery, MyGiftKeysQuery, MyPlayersQuery, JoinableAlliancesQuery, useSession,
   useMyAlliances, useOwnAlliance, IsOursQuery, usePermissions, useTabVisibility,
   useUiOverrides, useFavourites, useTableLayout, AllEventKindsQuery, DeparturesQuery,
   FormulasAdminQuery, HeroesAdminQuery, PetsAdminQuery, JoinCodesQuery, WeekScoresQuery,
   MembersAdminQuery, PlayerClaimsQuery, WaitingQuery, DiscordQuery,
   OverviewMetricsAdminQuery, OwnAllianceAdminQuery, RankReportQuery, RankTiersQuery,
   useRankMinimums, useSeasonLab, useSeasonBuildingAlert, SeasonBuildingAlertAdminQuery,
   UnnamedBuildingsQuery, useSeasons, ChannelNamesQuery, RosterQuery, MemberFormulasQuery,
   CurrentPeriodQuery, RankMovementQuery, RankMovementPreviewQuery, AllianceCompareQuery,
   AllianceHistoryQuery, AllianceQuery, AllianceTrendsQuery, PlayerQuery, PlayerTrendQuery,
   ComponentTrendQuery, MemberHistoryQuery, PlayerLocationQuery, OverviewQuery,
   OverviewMetricsQuery, ScannedServersQuery, ServerQuery, RankingsQuery, RankingServersQuery,
   RankingPageQuery, ArenaBoardsQuery, ArenaBoardQuery, useScraps, GuideEditableQuery,
   NoticeEditableQuery, AnnouncementsQuery, OverviewGuidesQuery, EventScoreboardQuery,
   useActivityTotals, useReplyAlerts, CalendarQuery, EventBoardQuery, useCapturedTimes,
   useDuelBoard, FrankieQuery, AttendanceDayQuery, EventDaysQuery, TickedDaysQuery,
   ParticipationBarsQuery, ParticipationQuery, EventKindsQuery, useScheduleEvents,
   useScheduleCategories, BattleMembersQuery, BattleOpponentsQuery, MemberMissesQuery,
   ScoreHistoryQuery, BattlesQuery, useFormations, useFormationBoard, useAssignableMembers,
   useOccupiedTiles, useMapFeatures, useTemplates, useAtlas, useScannedServers,
   SeasonBuildingsQuery, PastBuildingsQuery, AllianceScoreQuery, PlayerForceQuery,
   MigrationEventsQuery, MigrationServersQuery, MigrationFlowsQuery, MigrationTopQuery,
   MigrationAlliancesQuery, MigrationAllianceStatsQuery, MigrationServerStatsQuery,
   MigrationServerTopQuery, MoversQuery, FreshnessQuery, TierBoardQuery, BoardInfoQuery,
   CandidatesQuery, CandidateColumnsQuery, CandidateLookupQuery, CandidateSeenQuery,
   EnterableQuery, PlannerHeroesQuery, PlannerAccountsQuery, PlannerNamesQuery, useHeroes,
   usePets, PacksQuery, VariantsQuery, ListingsQuery, ItemValuesQuery, GiftCodesQuery,
   GiftMembersQuery, GiftRunnerQuery, ComponentBoardQuery, SyncStatusQuery, CollectorsQuery,
   WorkflowRunsQuery, QueueBeatsQuery, QueueNamesQuery, QueueJobsQuery, ObservationsQuery,
   useTrucks, useMissions, MigrationQuotasQuery}
  \cup {PostQuery(table) : table \in Posts}
  \cup {useBoard(table) : table \in Posts}
  \cup {useNeighbours(table) : table \in Posts}
  \cup {useComments(table) : table \in Posts}
=============================================================================
