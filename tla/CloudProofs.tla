----------------------------- MODULE CloudProofs -----------------------------
(***************************************************************************)
(* Proofs about the rows of the cloud.  What the schema is like is looked  *)
(* up table by table first; the rest goes by that alone.                   *)
(***************************************************************************)
EXTENDS CloudRows, WellFoundedInduction, TLAPS

-----------------------------------------------------------------------------
(* The schema. *)

Is(ref, column, to, optional, onDelete) ==
  /\ ref.column = column /\ ref.to = to
  /\ ref.optional = optional /\ ref.onDelete = onDelete

LEMMA Shapes ==
  \A column, to :
    /\ Is(Part(column, to), column, to, FALSE, "cascade")
    /\ Is(PartIf(column, to), column, to, TRUE, "cascade")
    /\ Is(PartOfOne(column, to), column, to, TRUE, "cascade")
    /\ Is(Clears(column, to), column, to, TRUE, "clear")
    /\ Is(Needs(column, to), column, to, FALSE, "keep")
    /\ Is(Names(column, to), column, to, TRUE, "keep")
BY DEF Is, Reference, Part, PartIf, PartOfOne, Clears, Needs, Names

\* How many cascades may lead to the row of a table.
Level(t) ==
  IF t \in {"auth_users", "alliances", "players", "servers", "seasons", "capabilities",
            "game_event_themes", "arena_snapshots", "gift_codes"} THEN 0
  ELSE IF t \in {"app_users", "announcements", "guides", "hive_formations",
                 "hive_formation_templates", "schedule_events", "arena_entries"} THEN 1
  ELSE IF t = "post_comments" THEN 2 ELSE 3

\* What goes with a row that the program deletes, or with a login.
Pieces ==
  {<<"hive_formations", "hive_formation_slots">>,
   <<"hive_formation_templates", "hive_formation_template_slots">>,
   <<"schedule_events", "schedule_reminders">>, <<"gift_codes", "gift_code_claims">>,
   <<"arena_snapshots", "arena_entries">>, <<"arena_entries", "arena_entry_heroes">>,
   <<"app_users", "activity_events">>, <<"app_users", "alliance_memberships">>,
   <<"app_users", "comment_notifications">>, <<"app_users", "user_players">>,
   <<"auth_users", "app_users">>, <<"auth_users", "favourites">>,
   <<"auth_users", "join_code_attempts">>, <<"auth_users", "player_claims">>,
   <<"auth_users", "post_reads">>,
   <<"guides", "post_comments">>, <<"guides", "favourites">>, <<"guides", "post_reads">>,
   <<"guides", "post_views">>, <<"announcements", "post_comments">>,
   <<"announcements", "favourites">>, <<"announcements", "post_reads">>,
   <<"announcements", "post_views">>, <<"post_comments", "post_comments">>,
   <<"post_comments", "comment_notifications">>}

\* The other tables that rows are part of: nothing of the program deletes them.
Lasting ==
  {"alliances", "players", "servers", "seasons", "capabilities", "game_event_themes"}

\* Rows that are part of a lasting one.
Dependent ==
  {"account_state_manual", "activity_events", "alliance_memberships",
   "alliance_settings", "announcements", "attendance_event_days",
   "comment_notifications", "event_attendance", "favourites", "game_event_scores",
   "gift_claim_exclusions", "gift_code_claims", "gift_extra_players",
   "gift_player_keys", "guides", "hive_formation_templates", "hive_formations",
   "join_codes", "member_roster_current", "notification_channels",
   "participation_thresholds", "player_claims", "player_contributions",
   "player_presence", "player_ranks", "player_season_buildings_current", "player_vip",
   "post_comments", "post_reads", "post_views", "rank_period_snapshots",
   "role_permissions", "schedule_categories", "schedule_events", "season_buildings",
   "user_players"}

\* Tables that name a login without saying what its deletion does to them.
HoldLogins ==
  {"alliance_settings", "hive_formations", "hive_formation_slots",
   "hive_formation_templates", "hive_map_features"}

\* What other rows hold on to.
HeldOnTo ==
  {"alliances", "attendance_event_kinds", "collectors", "component_metrics",
   "metric_registry", "players", "refresh_jobs", "servers"}

ReferredTo ==
  Lasting \cup
  {"announcements", "app_users", "arena_entries", "arena_snapshots",
   "attendance_event_kinds", "auth_users", "collectors", "component_metrics", "gift_codes",
   "guides", "hive_formation_templates", "hive_formations", "metric_registry",
   "notification_channels", "post_comments", "refresh_jobs", "schedule_categories",
   "schedule_events"}

Sound(t, ref) ==
  /\ ref.to \in ReferredTo
  /\ ref.onDelete \in {"cascade", "clear", "keep"}
  /\ ref.onDelete = "clear" => ref.optional = TRUE
  /\ ref.onDelete = "clear" /\ <<t, ref.column>> \in Pinned => ref.to = "auth_users"
  /\ ref.onDelete = "cascade" =>
       /\ ref.to = t \/ Level(ref.to) < Level(t)
       /\ <<ref.to, t>> \in Pieces \/ (ref.to \in Lasting /\ t \in Dependent)
  /\ ref.onDelete = "keep" =>
       /\ \/ ref.to \in HeldOnTo
          \/ ref.to = "auth_users" /\ t \in HoldLogins
       /\ \/ ref.optional = TRUE \/ ref.to \in Ensured \cup Catalogues
          \/ t \in {"attendance_event_days", "event_attendance"}
  /\ t \in Ensured => ref.optional = TRUE \/ (ref.to = "servers" /\ t # "servers")
  /\ ref.to = "arena_snapshots" => t = "arena_entries"
  /\ ref.to = "arena_entries" => t = "arena_entry_heroes"

Distinct(t) == \A r, s \in Tables[t] : r.column = s.column => r.to = s.to
Fits(t) == (\A ref \in Tables[t] : Sound(t, ref)) /\ Distinct(t)

LEMMA SchemaFits == \A t \in DOMAIN Tables : Fits(t)
<1> USE Shapes DEF Fits, Distinct, Tables, Collected, Is, Sound, Level, Pinned, Stamped, Released,
           Pieces, Lasting, Dependent, HoldLogins, HeldOnTo, ReferredTo, Ensured,
           Catalogues
<1>1. Fits("account_state_manual")
  BY DEF account_state_manual
<1>2. Fits("account_state_snapshots")
  BY DEF account_state_snapshots
<1>3. Fits("activity_events")
  BY DEF activity_events
<1>4. Fits("activity_facts")
  BY DEF activity_facts
<1>5. Fits("alliance_board_readings")
  BY DEF alliance_board_readings
<1>6. Fits("alliance_contribution_snapshots")
  BY DEF alliance_contribution_snapshots
<1>7. Fits("alliance_event_times")
  BY DEF alliance_event_times
<1>8. Fits("alliance_growth_current")
  BY DEF alliance_growth_current
<1>9. Fits("alliance_latest_current")
  BY DEF alliance_latest_current
<1>10. Fits("alliance_member_snapshots")
  BY DEF alliance_member_snapshots
<1>11. Fits("alliance_memberships")
  BY DEF alliance_memberships
<1>12. Fits("alliance_names")
  BY DEF alliance_names
<1>13. Fits("alliance_season_score_snapshots")
  BY DEF alliance_season_score_snapshots
<1>14. Fits("alliance_settings")
  BY DEF alliance_settings
<1>15. Fits("alliance_snapshots")
  BY DEF alliance_snapshots
<1>16. Fits("alliances")
  BY DEF alliances
<1>17. Fits("announcements")
  BY DEF announcements
<1>18. Fits("app_settings")
  BY DEF app_settings
<1>19. Fits("app_users")
  BY DEF app_users
<1>20. Fits("arena_entries")
  BY DEF arena_entries
<1>21. Fits("arena_entry_heroes")
  BY DEF arena_entry_heroes
<1>22. Fits("arena_matches")
  BY DEF arena_matches
<1>23. Fits("arena_snapshots")
  BY DEF arena_snapshots
<1>24. Fits("attendance_event_days")
  BY DEF attendance_event_days
<1>25. Fits("attendance_event_kinds")
  BY DEF attendance_event_kinds
<1>26. Fits("audit_logs")
  BY DEF audit_logs
<1>27. Fits("battle_report_ingests")
  BY DEF battle_report_ingests
<1>28. Fits("black_money_battle_snapshots")
  BY DEF black_money_battle_snapshots
<1>29. Fits("black_money_score_snapshots")
  BY DEF black_money_score_snapshots
<1>30. Fits("black_money_signup_snapshots")
  BY DEF black_money_signup_snapshots
<1>31. Fits("boss_damage_reads")
  BY DEF boss_damage_reads
<1>32. Fits("boss_damage_scores")
  BY DEF boss_damage_scores
<1>33. Fits("capabilities")
  BY DEF capabilities
<1>34. Fits("capital_clash_scores")
  BY DEF capital_clash_scores
<1>35. Fits("capital_clash_times")
  BY DEF capital_clash_times
<1>36. Fits("capital_clash_window_overrides")
  BY DEF capital_clash_window_overrides
<1>37. Fits("collector_heartbeats")
  BY DEF collector_heartbeats
<1>38. Fits("collectors")
  BY DEF collectors
<1>39. Fits("command_request_shapes")
  BY DEF command_request_shapes
<1>40. Fits("comment_notifications")
  BY DEF comment_notifications
<1>41. Fits("component_metrics")
  BY DEF component_metrics
<1>42. Fits("data_change_notifications")
  BY DEF data_change_notifications
<1>43. Fits("dispatch_mission_snapshots")
  BY DEF dispatch_mission_snapshots
<1>44. Fits("event_attendance")
  BY DEF event_attendance
<1>45. Fits("event_names")
  BY DEF event_names
<1>46. Fits("event_schedule_snapshots")
  BY DEF event_schedule_snapshots
<1>47. Fits("favourites")
  BY DEF favourites
<1>48. Fits("furnace_fury_scores")
  BY DEF furnace_fury_scores
<1>49. Fits("game_dispatch_missions")
  BY DEF game_dispatch_missions
<1>50. Fits("game_effects")
  BY DEF game_effects
<1>51. Fits("game_event_calendar")
  BY DEF game_event_calendar
<1>52. Fits("game_event_scores")
  BY DEF game_event_scores
<1>53. Fits("game_event_themes")
  BY DEF game_event_themes
<1>54. Fits("game_hero_gear")
  BY DEF game_hero_gear
<1>55. Fits("game_icon_refs")
  BY DEF game_icon_refs
<1>56. Fits("game_icons")
  BY DEF game_icons
<1>57. Fits("game_item_names")
  BY DEF game_item_names
<1>58. Fits("game_item_values")
  BY DEF game_item_values
<1>59. Fits("game_items")
  BY DEF game_items
<1>60. Fits("game_pack_names")
  BY DEF game_pack_names
<1>61. Fits("game_pack_picks")
  BY DEF game_pack_picks
<1>62. Fits("game_pack_variants")
  BY DEF game_pack_variants
<1>63. Fits("game_research_tabs")
  BY DEF game_research_tabs
<1>64. Fits("game_resources")
  BY DEF game_resources
<1>65. Fits("game_season_snapshots")
  BY DEF game_season_snapshots
<1>66. Fits("game_strings")
  BY DEF game_strings
<1>67. Fits("game_train_stations")
  BY DEF game_train_stations
<1>68. Fits("game_upgrade_steps")
  BY DEF game_upgrade_steps
<1>69. Fits("gift_claim_exclusions")
  BY DEF gift_claim_exclusions
<1>70. Fits("gift_code_claims")
  BY DEF gift_code_claims
<1>71. Fits("gift_codes")
  BY DEF gift_codes
<1>72. Fits("gift_extra_players")
  BY DEF gift_extra_players
<1>73. Fits("gift_player_keys")
  BY DEF gift_player_keys
<1>74. Fits("guides")
  BY DEF guides
<1>75. Fits("heroes")
  BY DEF heroes
<1>76. Fits("hive_formation_slots")
  BY DEF hive_formation_slots
<1>77. Fits("hive_formation_template_slots")
  BY DEF hive_formation_template_slots
<1>78. Fits("hive_formation_templates")
  BY DEF hive_formation_templates
<1>79. Fits("hive_formations")
  BY DEF hive_formations
<1>80. Fits("hive_map_features")
  BY DEF hive_map_features
<1>81. Fits("join_code_attempts")
  BY DEF join_code_attempts
<1>82. Fits("join_codes")
  BY DEF join_codes
<1>83. Fits("member_roster_current")
  BY DEF member_roster_current
<1>84. Fits("metric_registry")
  BY DEF metric_registry
<1>85. Fits("migration_candidate_columns")
  BY DEF migration_candidate_columns
<1>86. Fits("migration_candidates")
  BY DEF migration_candidates
<1>87. Fits("migration_config_snapshots")
  BY DEF migration_config_snapshots
<1>88. Fits("migration_events")
  BY DEF migration_events
<1>89. Fits("migration_server_snapshots")
  BY DEF migration_server_snapshots
<1>90. Fits("notification_channels")
  BY DEF notification_channels
<1>91. Fits("notification_outbox")
  BY DEF notification_outbox
<1>92. Fits("participation_thresholds")
  BY DEF participation_thresholds
<1>93. Fits("pets")
  BY DEF pets
<1>94. Fits("player_claims")
  BY DEF player_claims
<1>95. Fits("player_component_power_snapshots")
  BY DEF player_component_power_snapshots
<1>96. Fits("player_contributions")
  BY DEF player_contributions
<1>97. Fits("player_detail_snapshots")
  BY DEF player_detail_snapshots
<1>98. Fits("player_month_cards")
  BY DEF player_month_cards
<1>99. Fits("player_names")
  BY DEF player_names
<1>100. Fits("player_presence")
  BY DEF player_presence
<1>101. Fits("player_ranks")
  BY DEF player_ranks
<1>102. Fits("player_relocations")
  BY DEF player_relocations
<1>103. Fits("player_season_buildings_current")
  BY DEF player_season_buildings_current
<1>104. Fits("player_season_force_snapshots")
  BY DEF player_season_force_snapshots
<1>105. Fits("player_snapshots")
  BY DEF player_snapshots
<1>106. Fits("player_vip")
  BY DEF player_vip
<1>107. Fits("players")
  BY DEF players
<1>108. Fits("post_comments")
  BY DEF post_comments
<1>109. Fits("post_reads")
  BY DEF post_reads
<1>110. Fits("post_views")
  BY DEF post_views
<1>111. Fits("rank_period_snapshots")
  BY DEF rank_period_snapshots
<1>112. Fits("refresh_jobs")
  BY DEF refresh_jobs
<1>113. Fits("role_permissions")
  BY DEF role_permissions
<1>114. Fits("schedule_categories")
  BY DEF schedule_categories
<1>115. Fits("schedule_events")
  BY DEF schedule_events
<1>116. Fits("schedule_reminders")
  BY DEF schedule_reminders
<1>117. Fits("schema_observations")
  BY DEF schema_observations
<1>118. Fits("season_building_snapshots")
  BY DEF season_building_snapshots
<1>119. Fits("season_buildings")
  BY DEF season_buildings
<1>120. Fits("seasons")
  BY DEF seasons
<1>121. Fits("servers")
  BY DEF servers
<1>122. Fits("shop_listing_snapshots")
  BY DEF shop_listing_snapshots
<1>123. Fits("shop_pack_catalogs")
  BY DEF shop_pack_catalogs
<1>124. Fits("shop_pack_snapshots")
  BY DEF shop_pack_snapshots
<1>125. Fits("tab_visibility")
  BY DEF tab_visibility
<1>126. Fits("ui_overrides")
  BY DEF ui_overrides
<1>127. Fits("user_players")
  BY DEF user_players
<1>128. Fits("workflow_runs")
  BY DEF workflow_runs
<1>129. Fits("world_city_snapshots")
  BY DEF world_city_snapshots
<1>130. Fits("world_truck_snapshots")
  BY DEF world_truck_snapshots
<1>131. Fits("world_viewport_snapshots")
  BY DEF world_viewport_snapshots
<1>132. Fits("auth_users")
  OBVIOUS
<1> HIDE DEF Fits
<1> QED
  BY <1>1, <1>2, <1>3, <1>4, <1>5, <1>6, <1>7, <1>8, <1>9, <1>10, <1>11, <1>12, <1>13,
     <1>14, <1>15, <1>16, <1>17, <1>18, <1>19, <1>20, <1>21, <1>22, <1>23, <1>24, <1>25,
     <1>26, <1>27, <1>28, <1>29, <1>30, <1>31, <1>32, <1>33, <1>34, <1>35, <1>36, <1>37,
     <1>38, <1>39, <1>40, <1>41, <1>42, <1>43, <1>44, <1>45, <1>46, <1>47, <1>48, <1>49,
     <1>50, <1>51, <1>52, <1>53, <1>54, <1>55, <1>56, <1>57, <1>58, <1>59, <1>60, <1>61,
     <1>62, <1>63, <1>64, <1>65, <1>66, <1>67, <1>68, <1>69, <1>70, <1>71, <1>72, <1>73,
     <1>74, <1>75, <1>76, <1>77, <1>78, <1>79, <1>80, <1>81, <1>82, <1>83, <1>84, <1>85,
     <1>86, <1>87, <1>88, <1>89, <1>90, <1>91, <1>92, <1>93, <1>94, <1>95, <1>96, <1>97,
     <1>98, <1>99, <1>100, <1>101, <1>102, <1>103, <1>104, <1>105, <1>106, <1>107,
     <1>108, <1>109, <1>110, <1>111, <1>112, <1>113, <1>114, <1>115, <1>116, <1>117,
     <1>118, <1>119, <1>120, <1>121, <1>122, <1>123, <1>124, <1>125, <1>126, <1>127,
     <1>128, <1>129, <1>130, <1>131, <1>132 DEF Tables

LEMMA ReferredToExist == ReferredTo \subseteq DOMAIN Tables
BY DEF ReferredTo, Lasting, Tables

LEMMA Levels == \A t : Level(t) \in 0 .. 3
BY DEF Level

-----------------------------------------------------------------------------
(* What a delete takes. *)

Layers(f, S) ==
  f = [n \in 0 .. Depth |-> IF n = 0 THEN S \cap rows ELSE f[n - 1] \cup Dragged(f[n - 1])]

LEMMA LayersExist == ASSUME NEW S  PROVE \E f : Layers(f, S)
<1> DEFINE more(B) == B \cup Dragged(B)
           f0 == S \cap rows
           f1 == more(f0)
           f2 == more(f1)
           f3 == more(f2)
           f4 == more(f3)
           f5 == more(f4)
           f6 == more(f5)
           f == [n \in 0 .. Depth |->
                   CASE n = 0 -> f0 [] n = 1 -> f1 [] n = 2 -> f2 [] n = 3 -> f3
                     [] n = 4 -> f4 [] n = 5 -> f5 [] OTHER -> f6]
<1>1. /\ f0 = S \cap rows /\ f1 = more(f0) /\ f2 = more(f1) /\ f3 = more(f2)
      /\ f4 = more(f3) /\ f5 = more(f4) /\ f6 = more(f5)
  OBVIOUS
<1> HIDE DEF f0, f1, f2, f3, f4, f5, f6
<1>2. \A n \in 0 .. Depth : f[n] = IF n = 0 THEN S \cap rows ELSE more(f[n - 1])
  <2>1. \A n \in 0 .. Depth : n \in {0, 1, 2, 3, 4, 5, 6}
    BY DEF Depth
  <2>2. /\ f[0] = f0 /\ f[1] = f1 /\ f[2] = f2 /\ f[3] = f3 /\ f[4] = f4 /\ f[5] = f5 /\ f[6] = f6
    BY DEF Depth
  <2> HIDE DEF f, more
  <2>3. /\ f[0] = S \cap rows /\ f[1] = more(f[0]) /\ f[2] = more(f[1]) /\ f[3] = more(f[2])
        /\ f[4] = more(f[3]) /\ f[5] = more(f[4]) /\ f[6] = more(f[5])
    BY <1>1, <2>2
  <2>4. /\ 1 - 1 = 0 /\ 2 - 1 = 1 /\ 3 - 1 = 2 /\ 4 - 1 = 3 /\ 5 - 1 = 4 /\ 6 - 1 = 5
    OBVIOUS
  <2>5. ASSUME NEW n \in {1, 2, 3, 4, 5, 6}  PROVE f[n] = more(f[n - 1]) /\ n # 0
    BY <2>3, <2>4
  <2> QED
    BY <2>1, <2>3, <2>5
<1>3. f = [n \in 0 .. Depth |-> f[n]]
  OBVIOUS
<1> HIDE DEF f
<1> QED
  BY <1>2, <1>3 DEF Layers

LEMMA TakenIsALayer == ASSUME NEW S  PROVE \E f : Layers(f, S) /\ Taken(S) = f[Depth]
<1>1. Taken(S) = (CHOOSE f : Layers(f, S))[Depth]
  BY Zenon DEF Taken, Layers
<1>2. Layers(CHOOSE f : Layers(f, S), S)
  BY LayersExist, Zenon
<1> QED
  BY <1>1, <1>2

LEMMA RowsFit ==
  ASSUME rows \subseteq DOMAIN Tables, NEW t \in rows, NEW ref \in Tables[t]
  PROVE  Sound(t, ref)
BY SchemaFits DEF Fits

\* What is drawn in by a layer but not by the one below hangs by a higher level.
LEMMA OneLower ==
  ASSUME rows \subseteq DOMAIN Tables, NEW B, NEW C, C = B \cup Dragged(B),
         NEW t \in Dragged(C), t \notin C
  PROVE  \E u \in Dragged(B) : u \notin B /\ Level(u) < Level(t)
<1>1. PICK ref \in Tables[t] : Holds(t, ref) /\ ref.onDelete = "cascade" /\ ref.to \in C
  BY DEF Dragged
<1>2. t \in rows
  BY DEF Dragged
<1>3. ref.to # t /\ ref.to \notin B
  BY <1>1, <1>2 DEF Dragged
<1>4. ref.to \in Dragged(B)
  BY <1>1, <1>3
<1>5. Level(ref.to) < Level(t)
  BY <1>1, <1>2, <1>3, RowsFit DEF Sound
<1> QED
  BY <1>3, <1>4, <1>5

\* Below the last layer nothing is left to be drawn in.
LEMMA TakenIs ==
  ASSUME rows \subseteq DOMAIN Tables, NEW S
  PROVE  /\ S \cap rows \subseteq Taken(S) /\ Taken(S) \subseteq rows
         /\ Dragged(Taken(S)) \subseteq Taken(S)
         /\ \A W : S \cap rows \subseteq W /\ Dragged(W) \subseteq W => Taken(S) \subseteq W
<1>1. PICK f : Layers(f, S) /\ Taken(S) = f[Depth]
  BY TakenIsALayer
<1> DEFINE more(B) == B \cup Dragged(B)
<1>2. /\ f[0] = S \cap rows /\ f[1] = more(f[0]) /\ f[2] = more(f[1]) /\ f[3] = more(f[2])
      /\ f[4] = more(f[3]) /\ f[5] = more(f[4]) /\ f[6] = more(f[5]) /\ Taken(S) = f[6]
  <2>1. /\ 1 - 1 = 0 /\ 2 - 1 = 1 /\ 3 - 1 = 2 /\ 4 - 1 = 3 /\ 5 - 1 = 4 /\ 6 - 1 = 5
    OBVIOUS
  <2>2. \A n \in 0 .. Depth :
          f[n] = IF n = 0 THEN S \cap rows ELSE f[n - 1] \cup Dragged(f[n - 1])
    BY <1>1 DEF Layers
  <2>3. 0 .. Depth = {0, 1, 2, 3, 4, 5, 6} /\ Depth = 6
    BY DEF Depth
  <2> QED
    BY <1>1, <2>1, <2>2, <2>3
<1>3. ASSUME NEW B, NEW C, C = more(B), NEW W, Dragged(W) \subseteq W, B \subseteq W
      PROVE  C \subseteq W
  BY <1>3 DEF Dragged
<1>4. \A B : Dragged(B) \subseteq rows
  BY DEF Dragged
<1>5. Dragged(f[4]) \subseteq f[4]
  <2> SUFFICES ASSUME NEW t \in Dragged(f[4]), t \notin f[4]  PROVE FALSE
    OBVIOUS
  <2>1. PICK t3 \in Dragged(f[3]) : t3 \notin f[3] /\ Level(t3) < Level(t)
    BY <1>2, OneLower
  <2>2. PICK t2 \in Dragged(f[2]) : t2 \notin f[2] /\ Level(t2) < Level(t3)
    BY <1>2, <2>1, OneLower
  <2>3. PICK t1 \in Dragged(f[1]) : t1 \notin f[1] /\ Level(t1) < Level(t2)
    BY <1>2, <2>2, OneLower
  <2>4. PICK t0 \in Dragged(f[0]) : t0 \notin f[0] /\ Level(t0) < Level(t1)
    BY <1>2, <2>3, OneLower
  <2> QED
    BY <2>1, <2>2, <2>3, <2>4, Levels
<1>6. f[6] = f[4] /\ f[5] = f[4]
  BY <1>2, <1>5
<1> HIDE DEF more
<1>7. S \cap rows \subseteq Taken(S)
  BY <1>2, <1>6 DEF more
<1>8. Taken(S) \subseteq rows
  BY <1>2, <1>4 DEF more
<1>9. \A W : S \cap rows \subseteq W /\ Dragged(W) \subseteq W => Taken(S) \subseteq W
  BY <1>2, <1>3
<1> QED
  BY <1>2, <1>5, <1>6, <1>7, <1>8, <1>9

\* What remains refers to nothing that went, unless the column is cleared or
\* the delete is refused.
LEMMA RemainingReferences ==
  ASSUME rows \subseteq DOMAIN Tables, NEW S, RefusedBy(S) = {},
         NEW t \in rows, t \notin Taken(S), NEW ref \in Tables[t], Holds(t, ref), ref.to \in Taken(S)
  PROVE  ref.onDelete = "clear"
<1>1. ref.onDelete # "keep"
  BY DEF RefusedBy
<1>2. ref.onDelete # "cascade"
  BY TakenIs DEF Dragged
<1> QED
  BY <1>1, <1>2, RowsFit DEF Sound

-----------------------------------------------------------------------------
(* The tables a behaviour is about. *)

More(B) == B \cup UNION {Targets(u) : u \in B}
Circles(f, t) == f = [n \in 0 .. Depth |-> IF n = 0 THEN {t} ELSE More(f[n - 1])]

LEMMA CirclesExist == ASSUME NEW t  PROVE \E f : Circles(f, t)
<1> DEFINE f0 == {t}
           f1 == More(f0)
           f2 == More(f1)
           f3 == More(f2)
           f4 == More(f3)
           f5 == More(f4)
           f6 == More(f5)
           f == [n \in 0 .. Depth |->
                   CASE n = 0 -> f0 [] n = 1 -> f1 [] n = 2 -> f2 [] n = 3 -> f3
                     [] n = 4 -> f4 [] n = 5 -> f5 [] OTHER -> f6]
<1>1. /\ f0 = {t} /\ f1 = More(f0) /\ f2 = More(f1) /\ f3 = More(f2)
      /\ f4 = More(f3) /\ f5 = More(f4) /\ f6 = More(f5)
  OBVIOUS
<1> HIDE DEF f0, f1, f2, f3, f4, f5, f6
<1>2. \A n \in 0 .. Depth : f[n] = IF n = 0 THEN {t} ELSE More(f[n - 1])
  <2>1. \A n \in 0 .. Depth : n \in {0, 1, 2, 3, 4, 5, 6}
    BY DEF Depth
  <2>2. /\ f[0] = f0 /\ f[1] = f1 /\ f[2] = f2 /\ f[3] = f3 /\ f[4] = f4 /\ f[5] = f5 /\ f[6] = f6
    BY DEF Depth
  <2> HIDE DEF f
  <2>3. /\ f[0] = {t} /\ f[1] = More(f[0]) /\ f[2] = More(f[1]) /\ f[3] = More(f[2])
        /\ f[4] = More(f[3]) /\ f[5] = More(f[4]) /\ f[6] = More(f[5])
    BY <1>1, <2>2
  <2>4. /\ 1 - 1 = 0 /\ 2 - 1 = 1 /\ 3 - 1 = 2 /\ 4 - 1 = 3 /\ 5 - 1 = 4 /\ 6 - 1 = 5
    OBVIOUS
  <2>5. ASSUME NEW n \in {1, 2, 3, 4, 5, 6}  PROVE f[n] = More(f[n - 1]) /\ n # 0
    BY <2>3, <2>4
  <2> QED
    BY <2>1, <2>3, <2>5
<1>3. f = [n \in 0 .. Depth |-> f[n]]
  OBVIOUS
<1> HIDE DEF f
<1> QED
  BY <1>2, <1>3 DEF Circles

\* Three steps along references stay within it, and every table of it exists.
LEMMA WorldIs ==
  ASSUME NEW t \in DOMAIN Tables
  PROVE  /\ World(t) \subseteq DOMAIN Tables /\ t \in World(t)
         /\ \A u \in {t} \cup Targets(t) : \A v \in {u} \cup Targets(u) :
              v \in World(t) /\ Targets(v) \subseteq World(t)
<1>1. PICK f : Circles(f, t) /\ World(t) = f[Depth]
  <2>1. World(t) = (CHOOSE f : Circles(f, t))[Depth]
    BY Zenon DEF World, Circles, More
  <2>2. Circles(CHOOSE f : Circles(f, t), t)
    BY CirclesExist, Zenon
  <2> QED
    BY <2>1, <2>2
<1>2. /\ f[0] = {t} /\ f[1] = More(f[0]) /\ f[2] = More(f[1]) /\ f[3] = More(f[2])
      /\ f[4] = More(f[3]) /\ f[5] = More(f[4]) /\ f[6] = More(f[5]) /\ World(t) = f[6]
  <2>1. /\ 1 - 1 = 0 /\ 2 - 1 = 1 /\ 3 - 1 = 2 /\ 4 - 1 = 3 /\ 5 - 1 = 4 /\ 6 - 1 = 5
    OBVIOUS
  <2>2. \A n \in 0 .. Depth : f[n] = IF n = 0 THEN {t} ELSE More(f[n - 1])
    BY <1>1 DEF Circles
  <2>3. 0 .. Depth = {0, 1, 2, 3, 4, 5, 6} /\ Depth = 6
    BY DEF Depth
  <2> QED
    BY <1>1, <2>1, <2>2, <2>3
<1>3. ASSUME NEW B, B \subseteq DOMAIN Tables  PROVE More(B) \subseteq DOMAIN Tables
  <2>1. ASSUME NEW u \in DOMAIN Tables, NEW ref \in Tables[u]  PROVE ref.to \in DOMAIN Tables
    BY SchemaFits, ReferredToExist DEF Fits, Sound
  <2> QED
    BY <1>3, <2>1 DEF More, Targets
<1>4. \A B : B \subseteq More(B) /\ \A u \in B : Targets(u) \subseteq More(B)
  BY DEF More
<1>5. f[0] \subseteq DOMAIN Tables
  BY <1>2
<1>6. f[3] \subseteq World(t)
  BY <1>2, <1>4
<1>7. World(t) \subseteq DOMAIN Tables
  <2> HIDE DEF More
  <2> QED
    BY <1>2, <1>3, <1>5
<1>8. {t} \cup Targets(t) \subseteq f[1]
  BY <1>2, <1>4
<1>9. \A u \in f[1] : {u} \cup Targets(u) \subseteq f[2]
  BY <1>2, <1>4
<1>10. \A v \in f[2] : v \in f[3] /\ Targets(v) \subseteq f[3]
  <2>1. f[3] = More(f[2])
    BY <1>2
  <2> QED
    BY <2>1, <1>4
<1> QED
  BY <1>6, <1>7, <1>8, <1>9, <1>10

-----------------------------------------------------------------------------
(* The order of the upload. *)

LEMMA LeastMember == ASSUME NEW S \in SUBSET Nat, S # {} PROVE \E x \in S : \A y \in S : x <= y
<1> DEFINE R == OpToRel(<, Nat)
<1>1. IsWellFoundedOn(R, Nat)
  BY NatLessThanWellFounded
<1>2. \A x, y \in Nat : x < y => <<x, y>> \in R
  BY DEF OpToRel
<1> HIDE DEF R
<1>3. PICK x \in S : \A y \in S : ~ (<<y, x>> \in R)
  BY <1>1, WFMin
<1>4. ASSUME NEW y \in S PROVE x <= y
  <2>1. x \in Nat /\ y \in Nat
    OBVIOUS
  <2>2. ~ (y < x)
    BY <1>2, <1>3, <2>1
  <2> QED
    BY <2>1, <2>2
<1> QED
  BY <1>4

LEMMA TheArenaInOrder ==
  /\ DOMAIN TABLE_ORDER \subseteq Nat
  /\ \A i \in DOMAIN TABLE_ORDER : TABLE_ORDER[i] = "arena_entries" => i = 17
  /\ \A i \in DOMAIN TABLE_ORDER : TABLE_ORDER[i] = "arena_snapshots" => i = 16
BY DEF TABLE_ORDER

LEMMA SnapshotsFirst == ~ Before("arena_entries", "arena_snapshots")
BY TheArenaInOrder DEF Before

\* There is always a first, and no other comes before it.
LEMMA FirstIsLeast ==
  ASSUME queue # {}, queue \subseteq Uploaded
  PROVE  First \in queue /\ \A u \in queue \ {First} : Before(First, u)
<1> DEFINE places == {i \in DOMAIN TABLE_ORDER : TABLE_ORDER[i] \in queue}
<1>1. \A u \in queue : \E i \in places : TABLE_ORDER[i] = u
  BY DEF Uploaded, ToSet
<1>2. places \in SUBSET Nat /\ places # {}
  BY <1>1, TheArenaInOrder
<1>3. PICK i \in places : \A j \in places : i <= j
  BY <1>2, LeastMember
<1>4. ASSUME NEW u \in queue \ {TABLE_ORDER[i]}  PROVE Before(TABLE_ORDER[i], u)
  <2>1. PICK j \in places : TABLE_ORDER[j] = u
    BY <1>1
  <2>2. i < j
    BY <1>2, <1>3, <2>1
  <2> QED
    BY <2>1, <2>2 DEF Before
<1>5. \E t \in queue : \A u \in queue \ {t} : Before(t, u)
  BY <1>4
<1> QED
  BY <1>5, Zenon DEF First

LEMMA SentByNobody ==
  Uploaded \cap (Dependent \cup {"attendance_event_days", "event_attendance"}) = {}
<1>1. \A i \in DOMAIN TABLE_ORDER :
        TABLE_ORDER[i] \notin Dependent \cup {"attendance_event_days", "event_attendance"}
  BY DEF TABLE_ORDER, Dependent
<1> QED
  BY <1>1 DEF Uploaded, ToSet

LEMMA SentOfItsParts ==
  ASSUME NEW t \in Uploaded, NEW u, <<u, t>> \in Pieces
  PROVE  t = "arena_entries" /\ u = "arena_snapshots"
<1>1. \A i \in DOMAIN TABLE_ORDER : \A p \in Pieces :
        p[2] = TABLE_ORDER[i] => p = <<"arena_snapshots", "arena_entries">>
  BY DEF TABLE_ORDER, Pieces
<1> QED
  BY <1>1 DEF Uploaded, ToSet

\* What a table that is sent cannot do without.
LEMMA OnlyEntriesNeedAnUpload ==
  ASSUME NEW t \in Uploaded, t \in DOMAIN Tables, NEW u \in Required(t)
  PROVE  u \in Ensured \cup Catalogues \/ (t = "arena_entries" /\ u = "arena_snapshots")
<1>1. PICK ref \in Tables[t] : ref.optional # TRUE /\ ref.to = u
  BY DEF Required
<1>2. Sound(t, ref)
  BY SchemaFits DEF Fits
<1>3. CASE ref.onDelete = "cascade"
  BY <1>1, <1>2, <1>3, SentByNobody, SentOfItsParts DEF Sound
<1>4. CASE ref.onDelete = "keep"
  BY <1>1, <1>2, <1>4, SentByNobody DEF Sound
<1> QED
  BY <1>1, <1>2, <1>3, <1>4 DEF Sound

-----------------------------------------------------------------------------
(* What goes with what. *)

ByTheProgram == Departures \cup {{t} : t \in Deletable \cup Aged}
WholeOf(S) == S \cup UNION {Parts[t] : t \in S \cap DOMAIN Parts}
WithALogin ==
  {"auth_users", "app_users", "favourites", "join_code_attempts", "player_claims", "post_reads",
   "activity_events", "alliance_memberships", "comment_notifications", "user_players"}

LEMMA PartsOf ==
  /\ DOMAIN Parts = {"hive_formations", "hive_formation_templates", "schedule_events",
                     "gift_codes", "arena_snapshots", "app_users", "guides", "announcements"}
  /\ Parts["guides"] = OfAPost /\ Parts["announcements"] = OfAPost
  /\ Parts["hive_formations"] = {"hive_formation_slots"}
  /\ Parts["hive_formation_templates"] = {"hive_formation_template_slots"}
  /\ Parts["schedule_events"] = {"schedule_reminders"}
  /\ Parts["gift_codes"] = {"gift_code_claims"}
  /\ Parts["arena_snapshots"] = {"arena_entries", "arena_entry_heroes"}
  /\ Parts["app_users"] = {"alliance_memberships", "user_players", "activity_events",
                           "comment_notifications"}
BY DEF Parts

\* Nothing is part of a whole but its pieces, and it has no other.
LEMMA WholesAreWhole ==
  ASSUME NEW S \in ByTheProgram
  PROVE  /\ WholeOf(S) \cap (Lasting \cup HeldOnTo \cup {"auth_users"}) = {}
         /\ \A p \in Pieces : p[1] \in WholeOf(S) => p[2] \in WholeOf(S)
         /\ "arena_snapshots" \in WholeOf(S) => S = {"arena_snapshots"}
<1> DEFINE apart(W) == W \cap (Lasting \cup HeldOnTo \cup {"auth_users"}) = {}
           whole(W) == \A p \in Pieces : p[1] \in W => p[2] \in W
<1>1. CASE S \in Departures
  <2>1. WholeOf(S) = S \cup Parts["app_users"]
    BY <1>1, PartsOf DEF WholeOf, Departures
  <2> QED
    BY <1>1, <2>1, PartsOf DEF Departures, Lasting, HeldOnTo, Pieces
<1>2. ASSUME NEW t \in DOMAIN Parts, t # "app_users", S = {t}
      PROVE  /\ apart(WholeOf(S)) /\ whole(WholeOf(S))
             /\ "arena_snapshots" \in WholeOf(S) => S = {"arena_snapshots"}
  <2>1. WholeOf(S) = {t} \cup Parts[t]
    BY <1>2 DEF WholeOf
  <2> QED
    BY <1>2, <2>1, PartsOf DEF Lasting, HeldOnTo, Pieces, OfAPost
<1>3. ASSUME NEW t \in Deletable \cup Aged, t \notin DOMAIN Parts, S = {t}
      PROVE  /\ apart(WholeOf(S)) /\ whole(WholeOf(S))
             /\ "arena_snapshots" \in WholeOf(S) => S = {"arena_snapshots"}
  <2>1. WholeOf(S) = {t}
    BY <1>3 DEF WholeOf
  <2>2. t \notin Lasting \cup HeldOnTo \cup {"auth_users"}
    BY DEF Deletable, Aged, Lasting, HeldOnTo
  <2>3. \A p \in Pieces : p[1] # t
    BY <1>3, PartsOf DEF Deletable, Aged, Pieces
  <2> QED
    BY <1>3, <2>1, <2>2, <2>3
<1>4. "app_users" \notin Deletable \cup Aged
  BY DEF Deletable, Aged
<1>5. CASE S \notin Departures
  <2>1. PICK t \in Deletable \cup Aged : S = {t}
    BY <1>5 DEF ByTheProgram
  <2>2. CASE t \in DOMAIN Parts
    BY <1>2, <1>4, <2>1, <2>2
  <2>3. CASE t \notin DOMAIN Parts
    BY <1>3, <2>1, <2>3
  <2> QED
    BY <2>2, <2>3
<1> QED
  BY <1>1, <1>5

LEMMA ALoginIsWhole ==
  /\ WithALogin \cap (Lasting \cup HeldOnTo) = {} /\ "arena_snapshots" \notin WithALogin
  /\ \A p \in Pieces : p[1] \in WithALogin => p[2] \in WithALogin
BY DEF WithALogin, Lasting, HeldOnTo, Pieces

\* A set of tables that is whole in this sense is all a delete in it takes.
LEMMA NoMoreIsTaken ==
  ASSUME rows \subseteq DOMAIN Tables, NEW S, NEW W, S \subseteq W, W \cap Lasting = {},
         \A p \in Pieces : p[1] \in W => p[2] \in W
  PROVE  Taken(S) \subseteq W
<1>1. Dragged(W) \subseteq W
  <2> SUFFICES ASSUME NEW t \in Dragged(W)  PROVE t \in W
    OBVIOUS
  <2>1. PICK ref \in Tables[t] : ref.onDelete = "cascade" /\ ref.to \in W
    BY DEF Dragged
  <2>2. Sound(t, ref)
    BY RowsFit DEF Dragged
  <2>3. <<ref.to, t>> \in Pieces
    BY <2>1, <2>2 DEF Sound
  <2> QED
    BY <2>1, <2>3
<1> QED
  BY <1>1, TakenIs

LEMMA TakenWithin ==
  ASSUME rows \subseteq DOMAIN Tables
  PROVE  /\ \A S \in ByTheProgram : Taken(S) \subseteq WholeOf(S)
         /\ Taken({"auth_users"}) \subseteq WithALogin
<1>1. ASSUME NEW S \in ByTheProgram  PROVE Taken(S) \subseteq WholeOf(S)
  <2>1. S \subseteq WholeOf(S)
    BY DEF WholeOf
  <2> QED
    BY <2>1, WholesAreWhole, NoMoreIsTaken
<1>2. "auth_users" \in WithALogin
  BY DEF WithALogin
<1> QED
  BY <1>1, <1>2, ALoginIsWhole, NoMoreIsTaken

\* Who holds on to what would go.
LEMMA NobodyHoldsOn ==
  ASSUME rows \subseteq DOMAIN Tables, NEW S \in ByTheProgram
  PROVE  RefusedBy(S) = {} /\ PutBack(S) = {}
<1>1. Taken(S) \cap (HeldOnTo \cup {"auth_users"}) = {}
  BY TakenWithin, WholesAreWhole
<1>2. ASSUME NEW t \in RefusedBy(S)  PROVE FALSE
  <2>1. PICK ref \in Tables[t] : ref.onDelete = "keep" /\ ref.to \in Taken(S)
    BY DEF RefusedBy
  <2>2. Sound(t, ref)
    BY RowsFit DEF RefusedBy
  <2> QED
    BY <1>1, <2>1, <2>2 DEF Sound
<1>3. ASSUME NEW h \in PutBack(S)  PROVE FALSE
  <2>1. h[1] \in rows /\ h \in Pinned
    BY DEF PutBack, Cleared
  <2>2. PICK ref \in Tables[h[1]] :
          ref.column = h[2] /\ ref.onDelete = "clear" /\ ref.to \in Taken(S)
    BY DEF PutBack, Cleared
  <2>3. h = <<h[1], ref.column>>
    BY <2>1, <2>2 DEF Pinned, Stamped
  <2>4. Sound(h[1], ref)
    BY <2>1, RowsFit
  <2> QED
    BY <1>1, <2>1, <2>2, <2>3, <2>4 DEF Sound
<1> QED
  BY <1>2, <1>3

LEMMA WhoHoldsOnToALogin ==
  ASSUME rows \subseteq DOMAIN Tables  PROVE RefusedBy({"auth_users"}) \subseteq HoldLogins
<1> SUFFICES ASSUME NEW t \in RefusedBy({"auth_users"})  PROVE t \in HoldLogins
  OBVIOUS
<1>1. PICK ref \in Tables[t] : ref.onDelete = "keep" /\ ref.to \in Taken({"auth_users"})
  BY DEF RefusedBy
<1>2. Sound(t, ref)
  BY RowsFit DEF RefusedBy
<1>3. ref.to \notin HeldOnTo
  BY <1>1, TakenWithin, ALoginIsWhole
<1> QED
  BY <1>1, <1>2, <1>3 DEF Sound

-----------------------------------------------------------------------------
(* The inductive invariant: what is listed under ReferencesHold, and that  *)
(* what waits in the outbox was read from one message, whose parent is     *)
(* there, waits with it, or has aged out.                                  *)

Kinds ==
  /\ leaf \in DOMAIN Tables
  /\ rows \subseteq World(leaf) /\ captured \subseteq Uploaded
  /\ queue \subseteq captured /\ purged \subseteq Aged
Whole == \A t \in rows : Required(t) \subseteq rows
Lead ==
  \A h \in held : \A ref \in Optional(h[1]) : ref.column = h[2] => ref.to \in rows \/ h \in dangling
Pairs == \A h \in held : h[1] \in rows /\ h = <<h[1], h[2]>>
InOneMessage == captured \subseteq Together(leaf)
EntriesWithTheirs ==
  "arena_entries" \in captured => "arena_snapshots" \in rows \cup captured \cup purged
CloudInv ==
  /\ Kinds /\ Whole /\ Lead /\ Pairs /\ dangling \subseteq Pinned
  /\ InOneMessage /\ EntriesWithTheirs

LEMMA PinnedAre ==
  Pinned = {<<"announcements", "created_by">>, <<"guides", "created_by">>}
BY DEF Pinned, Stamped, Released

LEMMA RowsAreTables == ASSUME CloudInv  PROVE rows \subseteq DOMAIN Tables
BY WorldIs DEF CloudInv, Kinds

LEMMA OneColumn ==
  ASSUME NEW t \in DOMAIN Tables, NEW r \in Tables[t], NEW s \in Tables[t], r.column = s.column
  PROVE  r.to = s.to
BY SchemaFits DEF Fits, Distinct

LEMMA WorldsOfLeaf == ASSUME leaf \in DOMAIN Tables  PROVE Worlds[leaf] = World(leaf)
BY DEF Worlds

\* Inserting a row, with what it refers to in place.
LEMMA PutKeeps ==
  ASSUME CloudInv, NEW t \in World(leaf), NEW refs \in SUBSET Optional(t), Put(t, refs),
         captured' = captured, queue' = queue
  PROVE  CloudInv'
<1> USE DEF CloudInv
<1>1. /\ Required(t) \subseteq rows /\ {ref.to : ref \in refs} \subseteq rows
      /\ rows' = rows \cup {t} /\ held' = held \cup {<<t, ref.column>> : ref \in refs}
      /\ leaf' = leaf /\ dangling' = dangling /\ purged' = purged
  BY DEF Put
<1>2. t \in DOMAIN Tables
  BY WorldIs DEF Kinds
<1>3. Kinds'
  BY <1>1 DEF Kinds
<1>4. Whole'
  <2>1. ASSUME NEW u \in rows'  PROVE Required(u) \subseteq rows'
    BY <1>1 DEF Whole
  <2> QED
    BY <2>1 DEF Whole, Required
<1>5. Lead'
  <2>1. ASSUME NEW h \in held', NEW r \in Optional(h[1]), r.column = h[2]
        PROVE  r.to \in rows' \/ h \in dangling'
    <3>1. CASE h \in held
      BY <1>1, <2>1, <3>1 DEF Lead
    <3>2. CASE h \notin held
      <4>1. PICK s \in refs : h = <<t, s.column>>
        BY <1>1, <3>2
      <4>2. r.to = s.to
        BY <1>2, <2>1, <4>1, OneColumn DEF Optional
      <4> QED
        BY <1>1, <4>1, <4>2
    <3> QED
      BY <3>1, <3>2
  <2> QED
    BY <2>1 DEF Lead, Optional
<1>6. Pairs'
  BY <1>1 DEF Pairs
<1>7. dangling' \subseteq Pinned
  BY <1>1
<1>8. InOneMessage' /\ EntriesWithTheirs'
  BY <1>1 DEF InOneMessage, EntriesWithTheirs, Together, Targets
<1> QED
  BY <1>3, <1>4, <1>5, <1>6, <1>7, <1>8

\* Deleting: what is left refers to what is left, but for an author a trigger
\* puts back.
LEMMA DeleteKeeps ==
  ASSUME CloudInv, NEW S, Delete(S), purged' \in SUBSET Aged, purged \subseteq purged',
         "arena_snapshots" \in Taken(S) => "arena_snapshots" \in purged'
  PROVE  CloudInv'
<1> USE DEF CloudInv
<1>1. /\ RefusedBy(S) = {} /\ rows' = rows \ Taken(S)
      /\ held' = Of(rows', held) \ (Cleared(S) \ Pinned)
      /\ dangling' = Of(rows', dangling \cup PutBack(S))
      /\ leaf' = leaf /\ captured' = captured /\ queue' = queue
  BY DEF Delete
<1>2. rows \subseteq DOMAIN Tables
  BY RowsAreTables
<1>3. \A h \in held' : h \in held /\ h[1] \in rows'
  BY <1>1 DEF Of
<1>4. Kinds'
  BY <1>1 DEF Kinds
<1>5. Whole'
  <2>1. ASSUME NEW t \in rows', NEW ref \in Tables[t], ~ ref.optional  PROVE ref.to \in rows'
    <3>1. t \in rows /\ t \notin Taken(S)
      BY <1>1
    <3>2. ref.to \in rows
      BY <2>1, <3>1 DEF Whole, Required
    <3>3. Holds(t, ref)
      BY <2>1, <3>1 DEF Holds
    <3>4. Sound(t, ref)
      BY <1>2, <3>1, RowsFit
    <3>5. ref.onDelete # "clear"
      BY <2>1, <3>4 DEF Sound
    <3> QED
      BY <1>1, <1>2, <3>1, <3>2, <3>3, <3>5, RemainingReferences
  <2> QED
    BY <2>1 DEF Whole, Required
<1>6. Lead'
  <2>1. ASSUME NEW h \in held', NEW ref \in Optional(h[1]), ref.column = h[2]
        PROVE  ref.to \in rows' \/ h \in dangling'
    <3>1. h \in held /\ h[1] \in rows' /\ h[1] \in rows /\ h[1] \notin Taken(S)
      BY <1>1, <1>3
    <3>2. ref \in Tables[h[1]]
      BY DEF Optional
    <3>3. CASE h \in dangling
      BY <1>1, <3>1, <3>3 DEF Of
    <3>4. CASE h \notin dangling /\ ref.to \in Taken(S)
      <4>1. h = <<h[1], ref.column>>
        BY <2>1, <3>1 DEF Pairs
      <4>2. Holds(h[1], ref)
        BY <3>1, <3>4, <4>1 DEF Holds
      <4>3. ref.onDelete = "clear"
        BY <1>1, <1>2, <3>1, <3>2, <3>4, <4>2, RemainingReferences
      <4>4. h \in Cleared(S)
        BY <2>1, <3>1, <3>2, <3>4, <4>3 DEF Cleared
      <4>5. h \in PutBack(S)
        BY <1>1, <4>4 DEF PutBack
      <4> QED
        BY <1>1, <3>1, <4>5 DEF Of
    <3>5. CASE h \notin dangling /\ ref.to \notin Taken(S)
      BY <1>1, <2>1, <3>1, <3>5 DEF Lead
    <3> QED
      BY <3>3, <3>4, <3>5
  <2> QED
    BY <2>1 DEF Lead, Optional
<1>7. Pairs'
  BY <1>3 DEF Pairs
<1>8. dangling' \subseteq Pinned
  BY <1>1 DEF Of, PutBack
<1>9. InOneMessage' /\ EntriesWithTheirs'
  BY <1>1 DEF InOneMessage, EntriesWithTheirs, Together, Targets
<1> QED
  BY <1>4, <1>5, <1>6, <1>7, <1>8, <1>9

\* What the worker creates needs a server at most.
LEMMA EnsuredNeedServers ==
  /\ Ensured \subseteq DOMAIN Tables
  /\ \A t \in Ensured : Required(t) \subseteq {"servers"} \ {t}
<1>1. Ensured \subseteq DOMAIN Tables
  BY DEF Ensured, Tables
<1>2. ASSUME NEW t \in Ensured, NEW u \in Required(t)  PROVE u \in {"servers"} \ {t}
  <2>1. PICK ref \in Tables[t] : ref.optional # TRUE /\ ref.to = u
    BY DEF Required
  <2>2. Sound(t, ref)
    BY <1>1, <1>2, SchemaFits DEF Fits
  <2> QED
    BY <1>2, <2>1, <2>2 DEF Sound
<1> QED
  BY <1>1, <1>2

LEMMA UploadKeeps == ASSUME CloudInv, Upload  PROVE CloudInv'
<1> USE DEF CloudInv
<1>1. PICK refs \in SUBSET {ref \in Optional(First) : ref.to \in Ensured} :
        LET named == Ensured \cap (Required(First) \cup {ref.to : ref \in refs})
            made == named \cup UNION {Required(u) : u \in named}
        IN /\ rows' = rows \cup made \cup {First}
           /\ held' = held \cup {<<First, ref.column>> : ref \in refs}
  BY DEF Upload
<1> DEFINE named == Ensured \cap (Required(First) \cup {ref.to : ref \in refs})
           made == named \cup UNION {Required(u) : u \in named}
<1>2. /\ rows' = rows \cup made \cup {First}
      /\ held' = held \cup {<<First, ref.column>> : ref \in refs}
  BY <1>1
<1>3. /\ queue # {} /\ Required(First) \subseteq rows \cup Ensured
      /\ captured' = captured \ {First} /\ queue' = queue \ {First}
      /\ leaf' = leaf /\ dangling' = dangling /\ purged' = purged
  BY DEF Upload, Missing
<1>4. First \in captured /\ First \in Together(leaf)
  BY <1>3, FirstIsLeast DEF Kinds, InOneMessage
<1>5. First \in {leaf} \cup Targets(leaf)
  BY <1>4 DEF Together
<1>6. First \in World(leaf) /\ First \in DOMAIN Tables /\ Targets(First) \subseteq World(leaf)
  BY <1>5, WorldIs DEF Kinds
<1>7. named \subseteq Targets(First)
  BY DEF Required, Optional, Targets
<1>8. made \subseteq World(leaf)
  <2>1. \A v \in {First} \cup Targets(First) : v \in World(leaf) /\ Targets(v) \subseteq World(leaf)
    BY <1>5, WorldIs DEF Kinds
  <2>2. \A v : Required(v) \subseteq Targets(v)
    BY DEF Required, Targets
  <2> QED
    BY <1>7, <2>1, <2>2
<1>9. Kinds'
  BY <1>2, <1>3, <1>6, <1>8 DEF Kinds
<1>10. Whole'
  <2>1. ASSUME NEW t \in rows'  PROVE Required(t) \subseteq rows'
    <3>1. CASE t \in rows
      BY <1>2, <3>1 DEF Whole
    <3>2. CASE t = First
      BY <1>2, <1>3, <3>2
    <3>3. CASE t \in named
      BY <1>2, <3>3
    <3>4. CASE \E u \in named : t \in Required(u)
      <4>1. t = "servers" /\ "servers" \in Ensured
        BY <3>4, EnsuredNeedServers DEF Ensured
      <4>2. Required(t) = {}
        BY <4>1, EnsuredNeedServers
      <4> QED
        BY <4>2
    <3> QED
      BY <1>2, <3>1, <3>2, <3>3, <3>4
  <2> QED
    BY <2>1 DEF Whole, Required
<1>11. Lead'
  <2>1. ASSUME NEW h \in held', NEW r \in Optional(h[1]), r.column = h[2]
        PROVE  r.to \in rows' \/ h \in dangling'
    <3>1. CASE h \in held
      BY <1>2, <1>3, <2>1, <3>1 DEF Lead
    <3>2. CASE h \notin held
      <4>1. PICK s \in refs : h = <<First, s.column>>
        BY <1>2, <3>2
      <4>2. s \in Optional(First) /\ s.to \in named
        OBVIOUS
      <4>3. r.to = s.to
        BY <1>6, <2>1, <4>1, <4>2, OneColumn DEF Optional
      <4> QED
        BY <1>2, <4>2, <4>3
    <3> QED
      BY <3>1, <3>2
  <2> QED
    BY <2>1 DEF Lead, Optional
<1>12. Pairs'
  BY <1>2 DEF Pairs
<1>13. InOneMessage' /\ EntriesWithTheirs' /\ dangling' \subseteq Pinned
  BY <1>2, <1>3 DEF InOneMessage, EntriesWithTheirs, Together, Targets
<1> QED
  BY <1>9, <1>10, <1>11, <1>12, <1>13

LEMMA CaptureKeeps == ASSUME CloudInv, Capture  PROVE CloudInv'
<1> USE DEF CloudInv
<1>1. /\ leaf \in Uploaded /\ captured' = captured \cup (Together(leaf) \ rows)
      /\ UNCHANGED <<leaf, rows, held, dangling, queue, purged>>
  BY DEF Capture
<1>2. Together(leaf) \subseteq Uploaded
  BY <1>1 DEF Together
<1>3. Kinds' /\ Whole' /\ Lead' /\ Pairs' /\ dangling' \subseteq Pinned
  BY <1>1, <1>2 DEF Kinds, Whole, Lead, Pairs, Required, Optional
<1>4. Together(leaf)' = Together(leaf)
  BY <1>1 DEF Together, Targets
<1>5. InOneMessage'
  BY <1>1, <1>4 DEF InOneMessage
<1>6. EntriesWithTheirs'
  <2>1. ASSUME "arena_entries" \in Together(leaf)  PROVE "arena_snapshots" \in Together(leaf)
    <3>1. leaf = "arena_entries" \/ "arena_entries" \in Targets(leaf)
      BY <2>1 DEF Together
    <3>2. "arena_entries" \notin Targets(leaf)
      <4>1. \A i \in DOMAIN TABLE_ORDER : TABLE_ORDER[i] # "arena_entry_heroes"
        BY DEF TABLE_ORDER
      <4>2. leaf # "arena_entry_heroes"
        BY <1>1, <4>1 DEF Uploaded, ToSet
      <4>3. \A ref \in Tables[leaf] : ref.to # "arena_entries"
        BY <4>2, SchemaFits DEF Fits, Sound, Kinds
      <4> QED
        BY <4>3 DEF Targets
    <3>3. "arena_snapshots" \in Targets("arena_entries")
      BY Shapes DEF Targets, Tables, arena_entries, Is
    <3>4. "arena_snapshots" \in Uploaded
      BY DEF Uploaded, ToSet, TABLE_ORDER
    <3> QED
      BY <3>1, <3>2, <3>3, <3>4 DEF Together
  <2>2. "arena_snapshots" \in Together(leaf) => "arena_snapshots" \in rows \cup captured'
    BY <1>1
  <2> QED
    BY <1>1, <2>1, <2>2 DEF EntriesWithTheirs
<1> QED
  BY <1>3, <1>5, <1>6

LEMMA CloudInvHolds == Spec => []CloudInv
<1>1. Init => CloudInv
  BY DEF Init, CloudInv, Kinds, Whole, Lead, Pairs, InOneMessage, EntriesWithTheirs
<1>2. CloudInv /\ [Next]_vars => CloudInv'
  <2> SUFFICES ASSUME CloudInv, [Next]_vars  PROVE CloudInv'
    OBVIOUS
  <2>1. rows \subseteq DOMAIN Tables
    BY RowsAreTables
  <2>2. \A S \in ByTheProgram : "arena_snapshots" \in Taken(S) => S = {"arena_snapshots"}
    BY <2>1, TakenWithin, WholesAreWhole
  <2>3. Kinds
    BY DEF CloudInv
  <2>4. CASE \E t \in Worlds[leaf] : Insert(t)
    <3>1. PICK t \in World(leaf) : Insert(t)
      BY <2>3, <2>4, WorldsOfLeaf DEF Kinds
    <3>2. PICK refs \in SUBSET Optional(t) : Put(t, refs)
      BY <3>1 DEF Insert
    <3> QED
      BY <3>1, <3>2, PutKeeps DEF Insert
  <2>5. CASE Capture
    BY <2>5, CaptureKeeps
  <2>6. CASE StartDrain \/ UploadFails
    <3>1. /\ queue' \subseteq captured
          /\ UNCHANGED <<leaf, rows, held, dangling, captured, purged>>
      BY <2>3, <2>6 DEF StartDrain, UploadFails, Kinds
    <3> QED
      BY <3>1 DEF CloudInv, Kinds, Whole, Lead, Pairs, InOneMessage, EntriesWithTheirs, Together,
                  Targets, Required, Optional
  <2>7. CASE Upload
    BY <2>7, UploadKeeps
  <2>8. CASE DeleteRow \/ Leave
    <3>1. PICK S \in ByTheProgram : Delete(S) /\ S # {"arena_snapshots"} /\ purged' = purged
      BY <2>8 DEF DeleteRow, Leave, ByTheProgram, Deletable, Departures
    <3> QED
      BY <2>2, <2>3, <3>1, DeleteKeeps DEF Kinds
  <2>9. CASE retention_purge
    <3>1. PICK t \in Aged : Delete({t}) /\ purged' = purged \cup {t}
      BY <2>9 DEF retention_purge
    <3>2. {t} \in ByTheProgram
      BY DEF ByTheProgram
    <3>3. "arena_snapshots" \in Taken({t}) => "arena_snapshots" \in purged'
      BY <2>2, <3>1, <3>2
    <3> QED
      BY <2>3, <3>1, <3>3, DeleteKeeps DEF Kinds
  <2>10. CASE DeleteLogin
    <3>1. Delete({"auth_users"}) /\ purged' = purged
      BY <2>10 DEF DeleteLogin
    <3>2. "arena_snapshots" \notin Taken({"auth_users"})
      BY <2>1, TakenWithin, ALoginIsWhole
    <3> QED
      BY <2>3, <3>1, <3>2, DeleteKeeps DEF Kinds
  <2>11. CASE UNCHANGED vars
    BY <2>11 DEF vars, CloudInv, Kinds, Whole, Lead, Pairs, InOneMessage, EntriesWithTheirs, Together,
                 Targets, Required, Optional
  <2> QED
    BY <2>4, <2>5, <2>6, <2>7, <2>8, <2>9, <2>10, <2>11 DEF Next
<1> QED
  BY <1>1, <1>2, PTL DEF Spec

-----------------------------------------------------------------------------
(* Theorems. *)

\* In every behaviour a column that may not be null, and an optional one that
\* is set, refers to a row that exists, but for the authors of notices and
\* guides: the triggers that stamp them put back what the database clears.
THEOREM ReferencesAlwaysHold == Spec => []ReferencesHold
<1>1. CloudInv => ReferencesHold
  <2> SUFFICES ASSUME CloudInv  PROVE ReferencesHold
    OBVIOUS
  <2>1. /\ leaf \in DOMAIN Tables /\ rows \subseteq Worlds[leaf] /\ captured \subseteq Uploaded
        /\ queue \subseteq captured /\ purged \subseteq Aged
    BY WorldsOfLeaf DEF CloudInv, Kinds
  <2>2. /\ \A t \in rows : Required(t) \subseteq rows
        /\ \A h \in held : h[1] \in rows
    BY DEF CloudInv, Whole, Pairs
  <2>3. \A h \in held : \A ref \in Optional(h[1]) :
          ref.column = h[2] => ref.to \in rows \/ h \in dangling
    BY DEF CloudInv, Lead
  <2>4. dangling \subseteq {<<"announcements", "created_by">>, <<"guides", "created_by">>}
    BY PinnedAre DEF CloudInv
  <2> QED
    BY <2>1, <2>2, <2>3, <2>4 DEF ReferencesHold
<1> QED
  BY <1>1, CloudInvHolds, PTL

\* No delete the program performs is ever refused, by a row that holds on to
\* what would go or by a trigger that puts a reference back; what refuses the
\* deletion of a login is only what its holder drew on the alliance's boards.
THEOREM NoDeleteIsRefused == Spec => []DeletesGoThrough
<1>1. CloudInv => DeletesGoThrough
  <2> SUFFICES ASSUME CloudInv  PROVE DeletesGoThrough
    OBVIOUS
  <2>1. rows \subseteq DOMAIN Tables
    BY RowsAreTables
  <2>2. \A S \in ByTheProgram : RefusedBy(S) = {} /\ PutBack(S) = {}
    BY <2>1, NobodyHoldsOn
  <2> QED
    BY <2>1, <2>2, WhoHoldsOnToALogin DEF DeletesGoThrough, ByTheProgram, HoldLogins
<1> QED
  BY <1>1, CloudInvHolds, PTL

\* A delete takes what it names and the parts of it, and nothing else: who
\* leaves takes nothing they made for others.
THEOREM DeletesTakeTheirOwn == Spec => []TakesOnlyItsOwn
<1>1. CloudInv => TakesOnlyItsOwn
  <2> SUFFICES ASSUME CloudInv  PROVE TakesOnlyItsOwn
    OBVIOUS
  <2>1. \A S \in ByTheProgram : Taken(S) \subseteq WholeOf(S)
    BY RowsAreTables, TakenWithin
  <2> QED
    BY <2>1 DEF TakesOnlyItsOwn, ByTheProgram, WholeOf
<1> QED
  BY <1>1, CloudInvHolds, PTL

\* When a table's turn comes, the rows it refers to are there, unless their
\* own upload waits, they have aged out or a catalogue lacks the key.
THEOREM ParentsGoFirst == Spec => []UploadsMeetTheirParents
<1>1. CloudInv => UploadsMeetTheirParents
  <2> SUFFICES ASSUME CloudInv, queue # {}, NEW u \in Missing(First)
               PROVE  u \in (captured \ queue) \cup purged \cup Catalogues
    BY DEF UploadsMeetTheirParents
  <2>1. queue \subseteq captured /\ captured \subseteq Uploaded /\ leaf \in DOMAIN Tables
    BY DEF CloudInv, Kinds
  <2>2. First \in queue /\ \A t \in queue \ {First} : Before(First, t)
    BY <2>1, FirstIsLeast
  <2>3. First \in DOMAIN Tables
    <3>1. First \in {leaf} \cup Targets(leaf)
      BY <2>1, <2>2 DEF CloudInv, InOneMessage, Together
    <3> QED
      BY <2>1, <3>1, WorldIs
  <2>4. u \in Required(First) /\ u \notin rows /\ u \notin Ensured
    BY DEF Missing
  <2>5. CASE u \in Catalogues
    BY <2>5
  <2>6. CASE u \notin Catalogues
    <3>1. First = "arena_entries" /\ u = "arena_snapshots"
      BY <2>1, <2>2, <2>3, <2>4, <2>6, OnlyEntriesNeedAnUpload
    <3>2. u \in captured \cup purged
      BY <2>1, <2>2, <2>4, <3>1 DEF CloudInv, EntriesWithTheirs
    <3>3. u \notin queue
      BY <2>2, <3>1, SnapshotsFirst
    <3> QED
      BY <3>2, <3>3
  <2> QED
    BY <2>5, <2>6
<1> QED
  BY <1>1, CloudInvHolds, PTL
=============================================================================
