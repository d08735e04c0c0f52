--------------------------- MODULE AllianceScreens ---------------------------
(***************************************************************************)
(* The queries about accounts, officers, members and posts: the key each   *)
(* is filed under and the tables its answer is computed from: those that   *)
(* its fetching function reads, directly, through a view or through a      *)
(* function of the database.  A hook or a component's useQuery is the      *)
(* screen that shows it.                                                   *)
(*                                                                         *)
(* Of a key the constant part is kept; the reader's own parameters (a      *)
(* player, a period, a server) come after it and are those of the change.  *)
(* app_settings is one table holding several settings: each is a fact of   *)
(* its own.  Names and current alliances in the registers players and      *)
(* alliances are not traced; the figures are, to the snapshots they are    *)
(* kept from.  Catalogues of the game that nothing here writes (icons,     *)
(* recipes, stations) are left out.                                        *)
(***************************************************************************)

Posts == {"guides", "announcements"}

\* post_comments, post_reads and post_channels hold both boards' rows; "scraps" and "stars"
\* are the rows of favourites for a post and for anything else.
CommentsOf(table) == IF table = "guides" THEN "guide_comments" ELSE "announcement_comments"
ReadsOf(table) == IF table = "guides" THEN "guide_reads" ELSE "announcement_reads"

\* An answer is trusted for a minute (App.tsx staleTime) or for as long as the
\* query says, and then asked for again when its screen is opened.
Screen(key, reads) == [key |-> key, reads |-> reads, life |-> "aging"]

\* refetchInterval.
Polled(key, reads) == [key |-> key, reads |-> reads, life |-> "polled"]

\* staleTime: Number.POSITIVE_INFINITY.
Kept(key, reads) == [key |-> key, reads |-> reads, life |-> "kept"]

-----------------------------------------------------------------------------
(* The account and the session. *)

MineQuery == Screen(<<"mine">>, {"guides", "announcements", "guide_comments",
    "announcement_comments", "scraps", "app_users"})
MyGiftKeysQuery == Screen(<<"my-gift-keys">>, {"gift_player_keys", "user_players"})
MyPlayersQuery == Screen(<<"my-players">>, {"user_players"})
JoinableAlliancesQuery == Screen(<<"joinable-alliances">>, {"own_alliance"})
\* current_app_role(), on the server: the role of the membership in the alliance on
\* screen or, for admins and where there is none, of the account.
RoleTables == {"app_users", "alliance_memberships"}
useSession == Screen(<<"session">>, RoleTables)
useMyAlliances == Screen(<<"my-alliances">>, RoleTables)
useOwnAlliance == Screen(<<"own-alliance">>, {"own_alliance"})
IsOursQuery == Screen(<<"is-ours">>, {"own_alliance"})
usePermissions == Screen(<<"permissions">>, {"role_permissions"})
useTabVisibility == Screen(<<"tab-visibility">>, {"tab_visibility"})
useUiOverrides == Screen(<<"ui-overrides">>, {"ui_overrides"})
useFavourites == Screen(<<"favourites">>, {"stars"})
useTableLayout == Screen(<<"table-layout">>, {"table_layout"})

(* Administration. *)

AllEventKindsQuery == Screen(<<"attendance-kinds-all">>, {"attendance_event_kinds"})
DeparturesQuery == Screen(<<"departures">>, {"alliance_member_snapshots"})
FormulasAdminQuery == Screen(<<"member-formulas-admin">>, {"member_formulas"})
HeroesAdminQuery == Screen(<<"heroes-admin">>, {"heroes"})
PetsAdminQuery == Screen(<<"pets-admin">>, {"pets"})
JoinCodesQuery == Screen(<<"join-codes">>, {"join_codes"})
WeekScoresQuery == Screen(<<"week-scores">>, {"alliance_contribution_snapshots"})
MembersAdminQuery == Screen(<<"members-admin">>, RoleTables)
PlayerClaimsQuery == Screen(<<"player-claims">>, {"player_claims"})
WaitingQuery == Screen(<<"waiting-to-join">>, {"app_users"})
DiscordQuery == Screen(<<"discord-notifications">>, {"discord_notifications",
    "notification_channels", "notification_outbox"})
OverviewMetricsAdminQuery == Screen(<<"overview-metrics-admin">>, {"overview_metrics"})
OwnAllianceAdminQuery == Screen(<<"admin-own-alliance">>, {"own_alliance"})
RankReportQuery == Screen(<<"rank-report">>, {"rank_period_snapshots"})
RankTiersQuery == Screen(<<"rank-tiers">>, {"rank_tiers"})
useRankMinimums == Screen(<<"rank-minimums">>, {"rank_tiers"})
useSeasonLab == Screen(<<"season-lab">>, {"rank_tiers"})
fetchAlert == {"season_building_alert"}
useSeasonBuildingAlert == Screen(<<"season-building-alert">>, fetchAlert)
SeasonBuildingAlertAdminQuery == Screen(<<"season-building-alert-admin">>, fetchAlert)
UnnamedBuildingsQuery == Screen(<<"seasons-unnamed">>, {"season_buildings",
    "season_building_snapshots"})
useSeasons == Screen(<<"seasons">>, {"seasons", "season_buildings"})
ChannelNamesQuery == Screen(<<"notification-channel-names">>, {"notification_channels"})
SyncStatusQuery == Polled(<<"sync-status">>, {"collectors"})
CollectorsQuery == Polled(<<"collectors">>, {"collectors"})
WorkflowRunsQuery == Screen(<<"workflow-runs">>, {"workflow_runs"})
QueueBeatsQuery == Polled(<<"queue-beats">>, {"collector_heartbeats"})
QueueNamesQuery == Screen(<<"queue-names">>, {"collectors"})
QueueJobsQuery == Polled(<<"queue-jobs">>, {"refresh_jobs"})
ObservationsQuery == Screen(<<"schema-observations">>, {"schema_observations"})

(* The alliance and its members. *)

RosterQuery == Screen(<<"roster">>, {"alliance_member_snapshots", "player_snapshots",
    "player_detail_snapshots", "alliance_contribution_snapshots", "player_ranks",
    "rank_period_snapshots"})
MemberFormulasQuery == Screen(<<"member-formulas">>, {"member_formulas"})
CurrentPeriodQuery == Screen(<<"current-period-contribution">>,
    {"alliance_contribution_snapshots"})
fetchMovement == {"rank_period_snapshots"}
RankMovementQuery == Screen(<<"rank-movement">>, fetchMovement)
RankMovementPreviewQuery == Screen(<<"rank-movement-preview">>, fetchMovement)
AllianceCompareQuery == Screen(<<"alliance-compare">>, {"alliance_snapshots"})
AllianceHistoryQuery == Screen(<<"alliance-history">>, {"alliance_snapshots"})
AllianceQuery == Screen(<<"alliance">>, {"alliance_snapshots", "alliance_member_snapshots",
    "player_snapshots"})
AllianceTrendsQuery == Screen(<<"alliance-trends">>, {"alliance_snapshots",
    "alliance_member_snapshots", "alliance_contribution_snapshots"})
PlayerQuery == Screen(<<"player">>, {"player_snapshots", "player_detail_snapshots",
    "alliance_member_snapshots", "alliance_contribution_snapshots",
    "player_component_power_snapshots", "player_ranks", "rank_period_snapshots",
    "arena_entries"})
PlayerTrendQuery == Screen(<<"player-trend">>, {"player_snapshots"})
ComponentTrendQuery == Screen(<<"component-trend">>, {"player_component_power_snapshots",
    "heroes", "pets"})
MemberHistoryQuery == Screen(<<"member-history">>, {"alliance_member_snapshots"})
PlayerLocationQuery == Screen(<<"player-location">>, {"world_city_snapshots"})
OverviewQuery == Screen(<<"overview">>, {"alliance_snapshots", "alliance_member_snapshots",
    "player_snapshots", "alliance_contribution_snapshots"})
OverviewMetricsQuery == Screen(<<"overview-metrics">>, {"overview_metrics"})
ScannedServersQuery == Screen(<<"overview", "servers">>, {"alliance_snapshots"})
ServerQuery == Screen(<<"server">>, {"alliance_snapshots", "player_snapshots"})
RankingsQuery == Screen(<<"rankings">>, {"alliance_snapshots"})
RankingServersQuery == Screen(<<"crossRankings", "servers">>, {"player_snapshots"})
RankingPageQuery == Screen(<<"crossRankings", "page">>, {"player_snapshots"})
ArenaBoardsQuery == Screen(<<"arena", "boards">>, {"arena_snapshots"})
ArenaBoardQuery == Screen(<<"arena", "board">>, {"arena_entries"})
ComponentBoardQuery == Screen(<<"crossRankings", "component">>,
    {"player_component_power_snapshots"})

(* Posts. *)

PostQuery(table) == Screen(<<"post", table>>, {table})
useBoard(table) == Screen(<<"board", table>>, {table, CommentsOf(table), ReadsOf(table)})
useNeighbours(table) == Screen(<<"board-neighbours", table>>, {table})
useComments(table) == Screen(<<"comments", table>>, {CommentsOf(table)})
useScraps == Screen(<<"scraps">>, {"scraps"})
GuideEditableQuery == Screen(<<"guide-editable">>, {"guides", "guide_channels"})
NoticeEditableQuery == Screen(<<"notice-editable">>, {"announcements", "announcement_channels"})
AnnouncementsQuery == Screen(<<"announcements">>, {"announcements"})
OverviewGuidesQuery == Screen(<<"overview-guides">>, {"guides"})
EventScoreboardQuery == Screen(<<"event-scoreboard">>, {"guide_comments", "announcement_comments"})
useActivityTotals == Screen(<<"activity-scores">>, {"guide_comments", "announcement_comments",
    "user_players"} \cup RoleTables)
useReplyAlerts == Screen(<<"reply-alerts">>, {"comment_notifications"})
=============================================================================
