-------------------------------- MODULE Routes --------------------------------
(***************************************************************************)
(* The dashboard's addresses (lib/route.ts): which screen an address       *)
(* opens, which of its tabs, and the address a link to either carries.  An *)
(* address is the sequence of the parts between its slashes; << >> is the  *)
(* bare one.                                                               *)
(***************************************************************************)
EXTENDS Naturals, Sequences, SequencesExt

CONSTANTS
  Servers,  \* numbers an address may name
  Ids       \* uuids an address may name: players, alliances, posts

\* The parts that are an address of their own, and the screens they open: most
\* are named after it.
Plain ==
  {"members", "rankings", "cross-server", "migration", "season", "season2", "map", "hive",
   "black-gold", "black-money", "arena", "month-cards", "account", "guides", "notices",
   "schedule", "participation", "frankie", "capital-clash", "server-clash", "events", "planner",
   "gift-codes", "calendar", "event-guide", "shop-value", "terms", "privacy", "login"}
ROUTES ==
  [part \in Plain |->
     CASE part = "cross-server" -> "crossRankings"
       [] part \in {"black-gold", "black-money"} -> "blackMoney"
       [] part = "month-cards" -> "monthCards"
       [] part = "capital-clash" -> "capitalClash"
       [] part = "server-clash" -> "serverClash"
       [] part = "gift-codes" -> "giftCodes"
       [] part = "event-guide" -> "eventGuide"
       [] part = "shop-value" -> "shopValue"
       [] OTHER -> part]

ADMIN_GROUPS == <<"access", "alliance", "display", "operations", "catalogue">>
EVENT_GUIDE_TABS == <<"today", "events", "survival", "duel", "scores">>
MEMBERS == <<"settled", "running">>
HIVE == <<"plan", "shape", "people">>
PLANNER == <<"raise", "settings", "upgrades">>
ALLIANCE_VIEWS == <<"members", "board", "power", "activity", "compare", "names">>

\* Addresses of an earlier planner, each the first tab today.
PlannerAliases == {"building", "research", "heroes", "vehicle", "pets"}

-----------------------------------------------------------------------------
(* A screen whose tabs each have an address: the bare one for the first. *)

tabbed(base, tabs) == {<<base>>} \cup {<<base, tab>> : tab \in ToSet(tabs)}
TabOf(tabs, address) == IF Len(address) = 2 THEN address[2] ELSE tabs[1]
TabHash(base, tabs, tab) == IF tab = tabs[1] THEN <<base>> ELSE <<base, tab>>

MembersTab(address) == TabOf(MEMBERS, address)
HiveTab(address) == TabOf(HIVE, address)

PlannerHashes == tabbed("planner", PLANNER) \cup {<<"planner", old>> : old \in PlannerAliases}
PlannerTab(address) ==
  LET tab == TabOf(PLANNER, address) IN IF tab \in PlannerAliases THEN "raise" ELSE tab

eventGuideTabFromHash(address) ==
  IF address \in tabbed("event-guide", EVENT_GUIDE_TABS) THEN TabOf(EVENT_GUIDE_TABS, address)
  ELSE "today"
eventGuideHash(tab) == TabHash("event-guide", EVENT_GUIDE_TABS, tab)

\* A community account does not get our scores, nor the times we chose.
isEventGuideTabOpen(tab, isCommunity) == ~ isCommunity \/ tab \notin {"scores", "events"}

\* Settings: a group, and under it perhaps one of its sections.
IsAdminHash(address) ==
  /\ address # << >> /\ address[1] = "admin" /\ Len(address) <= 3
  /\ Len(address) > 1 => address[2] \in ToSet(ADMIN_GROUPS)
adminGroupFromHash(address) == IF Len(address) > 1 THEN address[2] ELSE "access"
adminSectionFromHash(address) == IF Len(address) = 3 THEN address[3] ELSE "first"
adminHash(group) == <<"admin", group>>
adminSectionHash(group, section) == <<"admin", group, section>>

allianceHash(id, view) ==
  IF view = "members" THEN <<"alliance", id>> ELSE <<"alliance", id, view>>
allianceViewFromHash(address) == IF Len(address) = 3 THEN address[3] ELSE "members"

\* One of something, named after its board or its kind.
Subjects(kind, names) == {<<kind, name>> : name \in names}

AllianceHashes ==
  Subjects("alliance", Ids)
  \cup {<<"alliance", id, view>> : id \in Ids, view \in ToSet(ALLIANCE_VIEWS)}

routeFromHash(address) ==
  CASE IsAdminHash(address) -> "admin"
    [] address \in tabbed("event-guide", EVENT_GUIDE_TABS) -> "eventGuide"
    [] address \in tabbed("members", MEMBERS) -> "members"
    [] address \in tabbed("hive", HIVE) -> "hive"
    [] address \in PlannerHashes -> "planner"
    [] address \in Subjects("server", Servers) -> "server"
    [] address \in Subjects("map", Servers) -> "map"
    [] address \in Subjects("player", Ids) -> "player"
    [] address \in AllianceHashes -> "alliance"
    [] address \in Subjects("guides", Ids) -> "guide"
    [] address \in Subjects("notices", Ids) -> "notice"
    [] OTHER -> IF address \in {<<part>> : part \in Plain} THEN ROUTES[address[1]] ELSE "overview"

-----------------------------------------------------------------------------
(* The lists of screens.  A tab is a route and the address that opens it. *)

Tab(route, address) == [route |-> route, hash |-> address]

OVERVIEW_TABS ==
  {Tab("overview", << >>), Tab("rankings", <<"rankings">>), Tab("migration", <<"migration">>)}
ALLIANCE_TABS ==
  {Tab("members", <<"members">>), Tab("hive", <<"hive">>), Tab("events", <<"events">>),
   Tab("planner", <<"planner">>), Tab("giftCodes", <<"gift-codes">>)}
EVENTS_HUB_TABS ==
  << Tab("blackMoney", <<"black-gold">>), Tab("frankie", <<"frankie">>),
     Tab("capitalClash", <<"capital-clash">>), Tab("serverClash", <<"server-clash">>),
     Tab("participation", <<"participation">>), Tab("season", <<"season">>),
     Tab("season2", <<"season2">>) >>
EVENT_TABS ==
  {Tab("calendar", <<"calendar">>), Tab("eventGuide", <<"event-guide">>),
   Tab("shopValue", <<"shop-value">>)}
BOARD_TABS == {Tab("notices", <<"notices">>), Tab("guides", <<"guides">>)}
RANKING_TABS ==
  {Tab("rankings", <<"rankings">>), Tab("crossRankings", <<"cross-server">>),
   Tab("arena", <<"arena">>)}

HubRoutes == {"events"} \cup {tab.route : tab \in ToSet(EVENTS_HUB_TABS)}
inEventsHub(route) == route \in HubRoutes
RankingRoutes == {tab.route : tab \in RANKING_TABS}
isRankingRoute(route) == route \in RankingRoutes
isStandaloneRoute(route) == route \in {"login", "monthCards", "terms", "privacy"}
===============================================================================
