--------------------------- MODULE DashboardChanges ---------------------------
(***************************************************************************)
(* What changes the tables the dashboard's queries read: every mutation of *)
(* the dashboard, with the tables it writes (cascades and triggers of the  *)
(* database included) and the keys its onSuccess names, and every snapshot *)
(* the collector uploads, which names none; and how the database and       *)
(* lib/realtime.ts turn a written table into keys.                         *)
(***************************************************************************)
EXTENDS DashboardScreens, TLC

Change(name, writes, tells) == [name |-> name, by |-> "reader", writes |-> writes, tells |-> tells]

\* Uploaded by the collector.
Capture(table) == [name |-> table, by |-> "collector", writes |-> {table}, tells |-> {}]

\* invalidateQueries() without a filter.
Everything == {<<>>}

-----------------------------------------------------------------------------
(* From a written table to the keys it stands for.                         *)

\* Tables whose trigger inserts into data_change_notifications.
NotifiedTables ==
  {"player_snapshots", "player_detail_snapshots", "alliance_snapshots",
   "alliance_member_snapshots", "arena_matches", "arena_snapshots", "arena_entries",
   "alliance_contribution_snapshots", "player_component_power_snapshots",
   "arena_entry_heroes", "announcements", "heroes", "pets", "role_permissions", "guides",
   "player_claims", "app_users", "guide_comments", "announcement_comments",
   "comment_notifications", "alliance_season_score_snapshots",
   "player_season_force_snapshots", "world_city_snapshots", "season_building_snapshots",
   "world_viewport_snapshots", "hive_formations", "hive_formation_slots", "hive_map_features",
   "hive_formation_templates", "hive_formation_template_slots",
   "black_money_signup_snapshots", "black_money_battle_snapshots",
   "black_money_score_snapshots"}

\* notify_data_change(): a table is its own topic, unless its trigger names one.
NotifyTriggers ==
  [table \in NotifiedTables |->
    CASE table \in {CommentsOf(p) : p \in Posts} -> "post_comments"
      [] table = "hive_formation_slots" -> "hive_formations"
      [] table = "hive_formation_template_slots" -> "hive_formation_templates"
      [] OTHER -> table]

\* Officers draw the hive while everybody watches it.
HiveTopics ==
     "hive_formations" :> {<<"hive">>}
  @@ "hive_map_features" :> {<<"hive", "features">>}
  @@ "hive_formation_templates" :> {<<"hive", "templates">>}

TOPIC_QUERY_KEYS ==
     "alliance_member_snapshots" :> {<<"roster">>, <<"overview">>, <<"player">>}
  @@ "alliance_contribution_snapshots" :> {<<"roster">>, <<"overview">>, <<"player">>}
  @@ "player_snapshots" :> {<<"roster">>, <<"crossRankings">>, <<"overview">>, <<"player">>}
  @@ "alliance_snapshots" :> {<<"rankings">>}
  @@ "player_component_power_snapshots" :> {<<"crossRankings">>, <<"player">>}
  @@ "player_detail_snapshots" :> {<<"roster">>, <<"player">>}
  @@ "arena_snapshots" :> {<<"arena">>, <<"player">>}
  @@ "world_city_snapshots" :> {<<"player-location">>, <<"player">>, <<"map">>}
  @@ "season_building_snapshots" :> {<<"seasonBoard">>}
  @@ "arena_entries" :> {<<"arena">>, <<"player">>}
  @@ "announcements" :> {<<"announcements">>, <<"announcements-admin">>}
  @@ "post_comments" :> {<<"comments">>, <<"activity-scores">>}
  @@ "comment_notifications" :> {<<"reply-alerts">>}
  @@ "heroes" :> {<<"heroes">>, <<"heroes-admin">>, <<"crossRankings">>}
  @@ "pets" :> {<<"pets">>, <<"pets-admin">>, <<"crossRankings">>}
  @@ "role_permissions" :> {<<"permissions">>, <<"session">>}
  @@ "player_claims" :> {<<"my-claim">>, <<"player-claims">>}
  @@ "app_users" :> {<<"session">>, <<"my-claim">>, <<"members-admin">>}
  @@ "app_settings" :> {<<"overview-metrics">>,
        <<"overview-metrics-admin">>,
        <<"overview-formulas-admin">>,
        <<"admin-own-alliance">>}
  @@ HiveTopics

-----------------------------------------------------------------------------
(* Accounts, settings, the alliance. *)

MyGiftKeySaved == Change("MyGiftKeySaved", {"gift_player_keys"}, {<<"my-gift-keys">>})
MyGiftKeyRemoved == Change("MyGiftKeyRemoved", {"gift_player_keys", "gift_code_claims"},
    {<<"my-gift-keys">>})
CharacterLinked == Change("CharacterLinked", {"app_users", "user_players", "player_claims"},
    Everything)
\* remove_member, leave_alliance: the account's row and what is part of it.
AccountDeleted == RoleTables \cup {"user_players", "player_claims"}
AllianceLeft == Change("AllianceLeft", AccountDeleted, Everything)
saveEventKind == {"attendance_event_kinds"}
\* Mutant: the page that records attendance keeps its list of kinds for ever.
EventKindSavedHere ==
  Change("EventKindSaved", saveEventKind, {<<"attendance-kinds-all">>, <<"participation">>})

EventKindSaved == Change("EventKindSaved", saveEventKind, {<<"attendance-kinds-all">>,
    <<"attendance-kinds">>, <<"participation">>})
FormulasSaved == Change("FormulasSaved", {"member_formulas"}, Everything)
HeroSaved == Change("HeroSaved", {"heroes"}, {<<"heroes-admin">>, <<"heroes">>})
HeroAdded == Change("HeroAdded", {"heroes"}, {<<"heroes-admin">>, <<"heroes">>})
JoinCodeIssued == Change("JoinCodeIssued", {"join_codes"}, {<<"join-codes">>})
JoinCodeRevoked == Change("JoinCodeRevoked", {"join_codes"}, {<<"join-codes">>})
RosterChangedByHand == Change("RosterChangedByHand", {"alliance_member_snapshots"}, Everything)
WeekScoresEntered == Change("WeekScoresEntered", {"alliance_contribution_snapshots"}, Everything)
afterMembershipChange == {<<"members-admin">>, <<"waiting-to-join">>, <<"session">>,
    <<"member-history">>}
RoleSet == Change("RoleSet", RoleTables, afterMembershipChange)
LetIn == Change("LetIn", RoleTables, afterMembershipChange)
MemberRemoved == Change("MemberRemoved", AccountDeleted, {<<"members-admin">>,
    <<"player-claims">>, <<"session">>, <<"member-history">>})
ClaimDecided == Change("ClaimDecided", {"app_users", "user_players", "player_claims"},
    {<<"player-claims">>, <<"members-admin">>, <<"member-history">>})
MemberSaved == Change("MemberSaved", {"app_users", "user_players"},
    {<<"members-admin">>, <<"session">>, <<"member-history">>})
ChannelSaved == Change("ChannelSaved", {"notification_channels"}, {<<"discord-notifications">>})
ChannelToggled == Change("ChannelToggled", {"notification_channels"}, {<<"discord-notifications">>})
ChannelRemoved == Change("ChannelRemoved", {"notification_channels", "guide_channels",
    "announcement_channels"}, {<<"discord-notifications">>})
RoutingSaved == Change("RoutingSaved", {"discord_notifications"}, {<<"discord-notifications">>})
TestQueued == Change("TestQueued", {"notification_outbox"}, {<<"discord-notifications">>})
OverviewMetricsSaved == Change("OverviewMetricsSaved", {"overview_metrics"}, Everything)
OwnAllianceSaved == Change("OwnAllianceSaved", {"own_alliance"}, Everything)
ParticipationBarSaved == Change("ParticipationBarSaved", {"participation_thresholds"},
    {<<"participation-bars">>, <<"participation">>})
PermissionSet == Change("PermissionSet", {"role_permissions"}, {<<"permissions">>, <<"session">>})
PetSaved == Change("PetSaved", {"pets"}, {<<"pets-admin">>, <<"pets">>})
PetAdded == Change("PetAdded", {"pets"}, {<<"pets-admin">>, <<"pets">>})
RankPeriodAnnounced == Change("RankPeriodAnnounced", {"notification_outbox"}, {})
RankPeriodBuilt == Change("RankPeriodBuilt", {"rank_period_snapshots", "player_ranks"}, Everything)
RankTiersSaved == Change("RankTiersSaved", {"rank_tiers"}, {<<"rank-tiers">>})
BuildingAlertSaved == Change("BuildingAlertSaved", {"season_building_alert"},
    {<<"season-building-alert-admin">>, <<"season-building-alert">>})
done == {<<"seasons">>, <<"seasons-unnamed">>, <<"seasonBoard">>, <<"participation">>}
SeasonSaved == Change("SeasonSaved", {"seasons"}, done)
SeasonBuildingSaved == Change("SeasonBuildingSaved", {"season_buildings"}, done)
UnnamedBuildingsNamed == Change("UnnamedBuildingsNamed", {"season_buildings"}, done)
SeasonBuildingDeleted == Change("SeasonBuildingDeleted", {"season_buildings"}, done)
TabVisibilitySet == Change("TabVisibilitySet", {"tab_visibility"}, {<<"tab-visibility">>})
TableLayoutSaved == Change("TableLayoutSaved", {"table_layout"}, Everything)
RankSetByHand == Change("RankSetByHand", {"player_ranks"}, {<<"roster">>})
FavouriteToggled == Change("FavouriteToggled", {"stars"}, {<<"favourites">>})
OverridesSaved == Change("OverridesSaved", {"ui_overrides"}, {<<"ui-overrides">>})
OverridesCleared == Change("OverridesCleared", {"ui_overrides"}, {<<"ui-overrides">>})
JoinCodeRedeemed == Change("JoinCodeRedeemed", {"join_codes"} \cup RoleTables, Everything)

\* The same change about an alliance that is not the primary one, of an account
\* that keeps its row: only the membership is written, which notifies nobody.
Elsewhere(c) ==
  Change(c.name, (c.writes \cap {"join_codes"}) \cup {"alliance_memberships"}, c.tells)

(* Posts. *)

PostRead(table) == Change("PostRead", {ReadsOf(table)}, {<<"board", table>>})
CommentAdded(table) == Change("CommentAdded", {CommentsOf(table), "comment_notifications"},
    {<<"comments", table>>})
CommentEdited(table) == Change("CommentEdited", {CommentsOf(table)}, {<<"comments", table>>})
CommentDeleted(table) == Change("CommentDeleted", {CommentsOf(table)}, {<<"comments", table>>})
ScrapToggled == Change("ScrapToggled", {"scraps"}, {<<"scraps">>})
GuideRemoved == Change("GuideRemoved", {"guides", "guide_comments", "comment_notifications",
    "guide_reads", "scraps"}, {<<"board", "guides">>})
GuideSaved == Change("GuideSaved", {"guides", "guide_channels"}, {<<"board", "guides">>, <<"post",
    "guides">>})
NoticeRemoved == Change("NoticeRemoved", {"announcements", "announcement_comments",
    "comment_notifications", "announcement_reads", "scraps"}, {<<"board", "announcements">>,
    <<"announcements">>})
NoticeSaved == Change("NoticeSaved", {"announcements", "announcement_channels"}, {<<"board",
    "announcements">>, <<"post", "announcements">>, <<"announcements">>})
StandingsPosted == Change("StandingsPosted", {"announcements"}, {})
RepliesRead == Change("RepliesRead", {"comment_notifications"}, {<<"reply-alerts">>})

(* Events and schedule. *)

EventNamed == Change("EventNamed", {"event_names"}, {<<"event-calendar">>})
AttendanceRecorded == Change("AttendanceRecorded", {"event_attendance"},
    {<<"event-attendance">>, <<"participation">>})
EventDayDeclared == Change("EventDayDeclared", {"attendance_event_days"},
    {<<"attendance-days">>, <<"participation">>})
ScheduleSaved == Change("ScheduleSaved", {"schedule_events"}, {<<"schedule">>})
SeriesRemoved == Change("SeriesRemoved", {"schedule_events"}, {<<"schedule">>})
EntryRemoved == Change("EntryRemoved", {"schedule_events"}, {<<"schedule">>})
CategorySaved == Change("CategorySaved", {"schedule_categories"}, {<<"schedule">>})
CategoryRemoved == Change("CategoryRemoved", {"schedule_categories", "schedule_events"},
    {<<"schedule">>})

(* Hive. *)

saveAssignments == {"hive_formation_slots"}
FormationSaved == Change("FormationSaved", {"hive_formation_slots"} \cup saveAssignments,
    {<<"hive">>})
AssignmentsSaved == Change("AssignmentsSaved", saveAssignments, {<<"hive">>})
AnchorMoved == Change("AnchorMoved", {"hive_formations"}, {<<"hive">>})
MapFeatureAdded == Change("MapFeatureAdded", {"hive_map_features"}, {<<"hive", "features">>})
MapFeatureRemoved == Change("MapFeatureRemoved", {"hive_map_features"}, {<<"hive",
    "features">>})
TemplateSaved == Change("TemplateSaved", {"hive_formation_templates",
    "hive_formation_template_slots"}, {<<"hive", "templates">>})
TemplateRemoved == Change("TemplateRemoved", {"hive_formation_templates",
    "hive_formation_template_slots"}, {<<"hive", "templates">>})
FormationStands == Change("FormationStands", {"hive_formations"}, {<<"hive">>})
FormationRemoved == Change("FormationRemoved", {"hive_formations", "hive_formation_slots"},
    {<<"hive">>})
FormationCreated == Change("FormationCreated", {"hive_formations"}, {<<"hive">>})

(* Migration. *)

CandidatesAdded == Change("CandidatesAdded", {"migration_candidates"}, {<<"migration",
    "candidates-saved">>})
CandidatePatched == Change("CandidatePatched", {"migration_candidates"}, {<<"migration",
    "candidates-saved">>})
CandidateCellSet == Change("CandidateCellSet", {"migration_candidates"}, {<<"migration",
    "candidates-saved">>})
CandidateRemoved == Change("CandidateRemoved", {"migration_candidates"}, {<<"migration",
    "candidates-saved">>})
ColumnAdded == Change("ColumnAdded", {"migration_candidate_columns"}, {<<"migration",
    "candidates-saved">>})
ColumnUpdated == Change("ColumnUpdated", {"migration_candidate_columns"}, {<<"migration",
    "candidates-saved">>})
ColumnRemoved == Change("ColumnRemoved", {"migration_candidate_columns"}, {<<"migration",
    "candidates-saved">>})
MigrationEventSaved == Change("MigrationEventSaved", {"migration_events"}, {<<"migration">>})

(* Planner and shop. *)

ManualStateSaved == Change("ManualStateSaved", {"account_state_manual"},
    {<<"planner-accounts">>})
PackNamed == Change("PackNamed", {"game_pack_names"}, {<<"shop-packs">>})
saveItemValue == {"game_item_values"}
ItemPriced == Change("ItemPriced", saveItemValue, {<<"shop-values">>, <<"shop-packs">>,
    <<"shop-listings">>})
VariantChosen == Change("VariantChosen", {"game_pack_variants"}, {<<"shop-variants">>})
saveItemName == {"game_item_names"}
ItemSaved == Change("ItemSaved", saveItemName \cup saveItemValue, {<<"shop-values">>,
    <<"shop-packs">>, <<"shop-listings">>})
ItemNamed == Change("ItemNamed", saveItemName, {<<"shop-values">>, <<"shop-packs">>,
    <<"shop-listings">>})

(* Gifts. *)

GiftCodeAdded == Change("GiftCodeAdded", {"gift_codes"}, {<<"gift">>})
GiftClaimsQueued == Change("GiftClaimsQueued", {"gift_code_claims"}, {<<"gift">>})
GiftClaimsCancelled == Change("GiftClaimsCancelled", {"gift_code_claims"}, {<<"gift">>})
GiftCodeRetired == Change("GiftCodeRetired", {"gift_codes"}, {<<"gift">>})
GiftCodeDeleted == Change("GiftCodeDeleted", {"gift_codes", "gift_code_claims"}, {<<"gift">>})
setGiftPlayerKeys == {"gift_player_keys"}
GiftKeySet == Change("GiftKeySet", setGiftPlayerKeys, {<<"gift">>})
ExtraPlayerRemoved == Change("ExtraPlayerRemoved", {"gift_extra_players",
    "gift_claim_exclusions", "gift_code_claims"}, {<<"gift">>})
GiftRunnerToggled == Change("GiftRunnerToggled", {"gift_runner"}, {<<"gift">>})
GiftExclusionSet == Change("GiftExclusionSet", {"gift_claim_exclusions", "gift_code_claims"},
    {<<"gift">>})
ExtraPlayersAdded == Change("ExtraPlayersAdded", {"gift_extra_players"} \cup setGiftPlayerKeys,
    {<<"gift">>})

-----------------------------------------------------------------------------

Captured ==
  {"player_snapshots", "player_detail_snapshots", "alliance_snapshots",
   "alliance_member_snapshots", "alliance_contribution_snapshots",
   "player_component_power_snapshots", "arena_snapshots", "arena_entries",
   "alliance_season_score_snapshots", "player_season_force_snapshots", "world_city_snapshots",
   "season_building_snapshots", "black_money_signup_snapshots",
   "black_money_battle_snapshots", "black_money_score_snapshots", "collectors",
   "workflow_runs", "collector_heartbeats", "refresh_jobs", "schema_observations",
   "world_truck_snapshots", "dispatch_mission_snapshots", "migration_server_snapshots"}

AllChanges ==
  {MyGiftKeySaved, MyGiftKeyRemoved, CharacterLinked, AllianceLeft, EventKindSaved,
   FormulasSaved, HeroSaved, HeroAdded, JoinCodeIssued, JoinCodeRevoked, RosterChangedByHand,
   WeekScoresEntered, RoleSet, LetIn, MemberRemoved, ClaimDecided, MemberSaved, ChannelSaved,
   ChannelToggled, ChannelRemoved, RoutingSaved, TestQueued, OverviewMetricsSaved,
   OwnAllianceSaved, ParticipationBarSaved, PermissionSet, PetSaved, PetAdded,
   RankPeriodAnnounced, RankPeriodBuilt, RankTiersSaved, BuildingAlertSaved, SeasonSaved,
   SeasonBuildingSaved, UnnamedBuildingsNamed, SeasonBuildingDeleted, TabVisibilitySet,
   TableLayoutSaved, RankSetByHand, ScrapToggled, GuideRemoved, GuideSaved, NoticeRemoved,
   NoticeSaved, StandingsPosted, RepliesRead, FavouriteToggled, OverridesSaved,
   OverridesCleared, EventNamed, AttendanceRecorded, EventDayDeclared, ScheduleSaved,
   SeriesRemoved, EntryRemoved, CategorySaved, CategoryRemoved, FormationSaved,
   AssignmentsSaved, AnchorMoved, MapFeatureAdded, MapFeatureRemoved, TemplateSaved,
   TemplateRemoved, FormationStands, FormationRemoved, FormationCreated, CandidatesAdded,
   CandidatePatched, CandidateCellSet, CandidateRemoved, ColumnAdded, ColumnUpdated,
   ColumnRemoved, MigrationEventSaved, ManualStateSaved, PackNamed, ItemPriced, VariantChosen,
   ItemSaved, ItemNamed, GiftCodeAdded, GiftClaimsQueued, GiftClaimsCancelled,
   GiftCodeRetired, GiftCodeDeleted, GiftKeySet, ExtraPlayerRemoved, GiftRunnerToggled,
   GiftExclusionSet, ExtraPlayersAdded, JoinCodeRedeemed}
  \cup {Elsewhere(c) : c \in {AllianceLeft, RoleSet, MemberRemoved, JoinCodeRedeemed}}
  \cup {PostRead(table) : table \in Posts}
  \cup {CommentAdded(table) : table \in Posts}
  \cup {CommentEdited(table) : table \in Posts}
  \cup {CommentDeleted(table) : table \in Posts}
  \cup {Capture(table) : table \in Captured}
=============================================================================
