------------------------------- MODULE MCCache -------------------------------
(***************************************************************************)
(* Every mutation of the dashboard, made here or in another browser, and   *)
(* every table the collector uploads, with every query that reads what it  *)
(* writes.                                                                 *)
(***************************************************************************)
EXTENDS QueryCache, DashboardChanges

-----------------------------------------------------------------------------
(* What may be left old: the mutations whose onSuccess does not name a     *)
(* query that reads what they write, and the topics that do not stand for  *)
(* it.  Such an answer is replaced when it is a minute old and its screen  *)
(* is opened again, or by the refresh button.                              *)

SaveOverlooks ==
      ({"AttendanceRecorded"} \X
       {<<"attendance-ticked-days">>, <<"event-board">>, <<"frankie-damage">>})
  \cup ({"ChannelRemoved"} \X
       {<<"guide-editable">>, <<"notice-editable">>, <<"notification-channel-names">>})
  \cup ({"ChannelSaved", "ChannelToggled"} \X {<<"notification-channel-names">>})
  \cup ({"ClaimDecided"} \X
       {<<"activity-scores">>, <<"mine">>, <<"my-alliances">>, <<"my-gift-keys">>,
        <<"my-players">>, <<"planner-enterable">>, <<"session">>, <<"waiting-to-join">>})
  \cup ({"CommentAdded"} \X
       {<<"activity-scores">>, <<"board", "announcements">>, <<"board", "guides">>,
        <<"event-scoreboard">>, <<"mine">>, <<"reply-alerts">>})
  \cup ({"CommentEdited", "CommentDeleted"} \X
       {<<"activity-scores">>, <<"board", "announcements">>, <<"board", "guides">>,
        <<"event-scoreboard">>, <<"mine">>})
  \cup ({"EventDayDeclared"} \X {<<"event-board">>})
  \cup ({"GiftKeySet", "ExtraPlayersAdded"} \X {<<"my-gift-keys">>})
  \cup ({"GuideRemoved"} \X
       {<<"activity-scores">>, <<"board-neighbours", "guides">>, <<"comments", "guides">>,
        <<"event-scoreboard">>, <<"guide-editable">>, <<"mine">>, <<"overview-guides">>,
        <<"post", "guides">>, <<"reply-alerts">>, <<"scraps">>})
  \cup ({"GuideSaved"} \X
       {<<"board-neighbours", "guides">>, <<"guide-editable">>, <<"mine">>,
        <<"overview-guides">>})
  \cup ({"HeroSaved", "HeroAdded"} \X
       {<<"component-trend">>, <<"migration", "candidates-lookup">>,
        <<"migration", "candidates-seen">>, <<"planner-heroes">>, <<"planner-names">>})
  \cup ({"MemberRemoved", "MemberSaved"} \X
       {<<"activity-scores">>, <<"mine">>, <<"my-alliances">>, <<"my-gift-keys">>,
        <<"my-players">>, <<"planner-enterable">>, <<"waiting-to-join">>})
  \cup ({"MyGiftKeyRemoved"} \X {<<"gift", "codes">>, <<"gift", "members">>})
  \cup ({"MyGiftKeySaved"} \X {<<"gift", "members">>})
  \cup ({"NoticeRemoved"} \X
       {<<"activity-scores">>, <<"board-neighbours", "announcements">>,
        <<"comments", "announcements">>, <<"event-scoreboard">>, <<"mine">>,
        <<"notice-editable">>, <<"post", "announcements">>, <<"reply-alerts">>,
        <<"scraps">>})
  \cup ({"NoticeSaved"} \X
       {<<"board-neighbours", "announcements">>, <<"mine">>, <<"notice-editable">>})
  \cup ({"PermissionSet"} \X {<<"planner-enterable">>})
  \cup ({"PetSaved", "PetAdded"} \X
       {<<"component-trend">>, <<"migration", "candidates-lookup">>,
        <<"migration", "candidates-seen">>})
  \cup ({"RankPeriodAnnounced"} \X {<<"discord-notifications">>})
  \cup ({"RankSetByHand"} \X {<<"player">>})
  \cup ({"RankTiersSaved"} \X {<<"rank-minimums">>, <<"season-lab">>})
  \cup ({"RoleSet", "LetIn"} \X
       {<<"activity-scores">>, <<"mine">>, <<"my-alliances">>, <<"planner-enterable">>})
  \cup ({"ScheduleSaved", "SeriesRemoved", "EntryRemoved", "CategoryRemoved"} \X
       {<<"event-guide", "captured-times">>})
  \cup ({"ScrapToggled"} \X {<<"mine">>})
  \cup ({"StandingsPosted"} \X
       {<<"announcements">>, <<"board", "announcements">>,
        <<"board-neighbours", "announcements">>, <<"mine">>, <<"notice-editable">>,
        <<"post", "announcements">>})

TopicOverlooks ==
      ({"alliance_contribution_snapshots"} \X
       {<<"alliance-trends">>, <<"current-period-contribution">>,
        <<"event-guide", "duel-board">>, <<"participation">>, <<"week-scores">>})
  \cup ({"alliance_member_snapshots"} \X
       {<<"alliance">>, <<"alliance-trends">>, <<"departures">>, <<"event-board">>,
        <<"frankie-damage">>, <<"gift", "codes">>, <<"gift", "members">>,
        <<"hive", "board">>, <<"hive", "members">>, <<"map", "atlas">>,
        <<"member-history">>, <<"migration", "alliance-stats">>,
        <<"migration", "alliances">>, <<"migration", "flows">>, <<"migration", "movers">>,
        <<"migration", "server-stats">>, <<"migration", "servers">>,
        <<"migration", "top">>, <<"participation">>})
  \cup ({"alliance_season_score_snapshots"} \X {<<"seasonBoard", "alliance_score">>})
  \cup ({"alliance_snapshots"} \X
       {<<"alliance">>, <<"alliance-compare">>, <<"alliance-history">>,
        <<"alliance-trends">>, <<"migration", "alliances">>, <<"overview">>,
        <<"overview", "servers">>, <<"server">>})
  \cup ({"announcements"} \X
       {<<"board", "announcements">>, <<"board-neighbours", "announcements">>, <<"mine">>,
        <<"notice-editable">>, <<"post", "announcements">>})
  \cup ({"app_users"} \X
       {<<"activity-scores">>, <<"mine">>, <<"my-alliances">>, <<"planner-enterable">>,
        <<"waiting-to-join">>})
  \cup ({"black_money_battle_snapshots", "black_money_signup_snapshots", "black_money_score_snapshots"} \X
       {<<"blackMoney", "battles">>, <<"blackMoney", "history">>,
        <<"blackMoney", "members">>, <<"blackMoney", "misses">>,
        <<"blackMoney", "opponents">>, <<"participation">>})
  \cup ({"guides"} \X
       {<<"board", "guides">>, <<"board-neighbours", "guides">>, <<"guide-editable">>,
        <<"mine">>, <<"overview-guides">>, <<"post", "guides">>})
  \cup ({"heroes"} \X
       {<<"component-trend">>, <<"migration", "candidates-lookup">>,
        <<"migration", "candidates-seen">>, <<"planner-heroes">>, <<"planner-names">>})
  \cup ({"pets", "player_component_power_snapshots"} \X
       {<<"component-trend">>, <<"migration", "candidates-lookup">>,
        <<"migration", "candidates-seen">>})
  \cup ({"player_season_force_snapshots"} \X {<<"seasonBoard", "player_force">>})
  \cup ({"player_snapshots"} \X
       {<<"alliance">>, <<"hive", "board">>, <<"hive", "members">>,
        <<"migration", "alliance-stats">>, <<"migration", "alliances">>,
        <<"migration", "board">>, <<"migration", "candidates-lookup">>,
        <<"migration", "candidates-seen">>, <<"migration", "flows">>,
        <<"migration", "freshness">>, <<"migration", "movers">>,
        <<"migration", "server-stats">>, <<"migration", "server-top">>,
        <<"migration", "servers">>, <<"migration", "tiers">>, <<"migration", "top">>,
        <<"participation">>, <<"player-trend">>, <<"server">>})
  \cup ({"post_comments"} \X
       {<<"board", "announcements">>, <<"board", "guides">>, <<"event-scoreboard">>,
        <<"mine">>})
  \cup ({"role_permissions"} \X {<<"planner-enterable">>})
  \cup ({"season_building_snapshots"} \X {<<"participation">>, <<"seasons-unnamed">>})
  \cup ({"world_city_snapshots"} \X
       {<<"event-board">>, <<"hive", "occupied">>, <<"participation">>})

-----------------------------------------------------------------------------

\* The lists agree: who writes what a screen reads names a key it is filed by, and
\* so do the topics of the tables.
EveryScreenIsNamed ==
  \A c \in Changes, s \in Screens :
    /\ c.by = "reader" /\ c.writes \cap s.reads # {} /\ <<c.name, s.key>> \notin SaveOverlooks
         => \E k \in c.tells : Under(s.key, k)
    /\ \A table \in c.writes \cap s.reads \cap DOMAIN TopicOf :
         <<TopicOf[table], s.key>> \notin TopicOverlooks
           => \E k \in queryKeysForTopic(TopicOf[table]) : Under(s.key, k)

SavesReach ==
  (save = "done" /\ Settled /\ <<change.name, screen.key>> \notin SaveOverlooks) => data = "new"

NoticesReach ==
  Settled =>
    \A table \in change.writes \cap screen.reads \cap DOMAIN TopicOf :
      TopicOf[table] \in heard /\ <<TopicOf[table], screen.key>> \notin TopicOverlooks
        => data = "new"

\* A save that was answered, and a change made elsewhere and heard of, bring every
\* screen that shows what was written up to date, except the ones listed: neither
\* a cascade of the database nor another page reading the same table is forgotten
\* unseen (every onSuccess, and FR-UI-005 of lib/realtime.ts: "a new snapshot
\* refetches ONLY the affected panel").
ChangesReachTheirScreens == EveryScreenIsNamed /\ SavesReach /\ NoticesReach
=============================================================================
